---- MODULE Spec2Model ----
(***************************************************************************)
(* A model of the REstringer rewrite engine: the fingerprint cache, the   *)
(* tree substrate with staged marks, two unsafe passes and the pass        *)
(* orchestration loop.                                                     *)
(***************************************************************************)
EXTENDS Integers, Sequences, FiniteSets, TLC

(***************************************************************************)
(* Bounds of the model.                                                    *)
(***************************************************************************)
\* number of bucket objects the cache may allocate in one behaviour
MaxInstances == 4

(***************************************************************************)
(* Fingerprint cache (getCache).                                           *)
(***************************************************************************)
VARIABLES
    relevantScriptHash, \* the active fingerprint F ("none" before the first call)
    cache,              \* reference of the bucket of the active fingerprint (0: none)
    noHashCache,        \* reference of the bucket of the "no-hash" slot (0: none)
    heap,               \* bucket objects: reference -> set of entries stored in it
    nextId,             \* next free reference
    ret,                \* the reference returned by the last getCache call (0: none)
    lastOp,             \* history: the last operation [op, arg]
    lastGetArg,         \* history: the argument of the last getCache call
    flushedSince,       \* history: a flush happened since the last getCache call
    sameAsPrev,         \* history: the last getCache repeated the previous call's fingerprint
    noHashLog           \* history: entries written through the no-hash bucket since the last flush

cacheVars == <<relevantScriptHash, cache, noHashCache, heap, nextId, ret,
               lastOp, lastGetArg, flushedSince, sameAsPrev, noHashLog>>

(***************************************************************************)
(* Tree substrate (Arborist), passes and orchestrator.                     *)
(***************************************************************************)
VARIABLES
    script,          \* Arborist.script: the printed source of the current tree (a term)
    ast,             \* Arborist.ast: the flat node array, in pre-order
    marks,           \* the pending marks: nodeId -> replacement node
    candidateFilter, \* the filter the caller composes on the candidate stream
    faults,          \* whether staging a mark may throw in this job
    value,           \* DEFAULT_MAX_ITERATIONS.value
    lastRead,        \* the number the last numeric use of the counter returned
    pc,              \* position of the orchestrator
    phase,           \* "safe" or "unsafe": the pass list being run
    passIdx,         \* index of the running pass in its list
    matches,         \* what the running pass's match function returned (nodeIds)
    i,               \* index of the next candidate of the running pass
    replacementNode, \* what evalInVm returned for the last candidate
    snapshot,        \* the source at the start of the iteration
    preScript,       \* history: the source when the running pass started
    lastCommit,      \* history: outcome of the last applyChanges
    budget,          \* history: the counter's value when the job started
    iterations,      \* history: iterations started so far
    idle             \* history: completed iterations that changed nothing

engineVars == <<script, ast, marks, candidateFilter, faults, value, lastRead, pc, phase,
                passIdx, matches, i, replacementNode, snapshot, preScript, lastCommit,
                budget, iterations, idle>>

\* literalisation of one host value and the re-evaluation of the printed node
VARIABLES
    litValue,        \* the host value handed to createNewNode
    litNode,         \* the node createNewNode returned
    litResult,       \* what evaluating the printed node gave
    litPc            \* "idle", "value", "node", "evaluated"

litVars == <<litValue, litNode, litResult, litPc>>

\* calls of evalInVm and the memo of their results
VARIABLES
    sbFragment,      \* the fragment of the last call
    sbResult,        \* what the last call returned
    sbMemo,          \* the memoised results in the cache, per fragment
    sbFirst,         \* history: the first result ever returned, per fragment
    sbSince,         \* history: the result returned since the last purge, per fragment
    sbPc             \* "idle", "ready", "returned"

sbVars == <<sbFragment, sbResult, sbMemo, sbFirst, sbSince, sbPc>>

\* one run of resolveLocalCalls
VARIABLES
    rlcCalls,        \* the CallExpressions of the script, in nodeId order
    rlcOrder,        \* the candidates in the order the loop takes them
    rlcI,            \* position of the loop in rlcOrder
    rlcMarks,        \* the calls marked for replacement
    modifiedRanges,  \* the ranges of the calls marked so far
    rlcContexts,     \* cache: the callees whose context was collected
    rlcPc            \* "idle", "start", "loop", "returned"

rlcVars == <<rlcCalls, rlcOrder, rlcI, rlcMarks, modifiedRanges, rlcContexts, rlcPc>>

\* one run of the command line: parseArgs, then argsAreValid
VARIABLES
    cliArgs,         \* the arguments handed to parseArgs
    cliOpts,         \* the options object parseArgs returned
    cliValid,        \* what argsAreValid returned for it
    cliPc            \* "idle", "start", "parsed", "validated"

cliVars == <<cliArgs, cliOpts, cliValid, cliPc>>

\* one run of normalizeRedundantNotOperator on a script of one statement
VARIABLES
    notAst,          \* the flat tree of the script
    notFilter,       \* the candidate filter of the run
    notMarks,        \* the replacements the run staged
    notPc            \* "idle", "start", "returned"

notVars == <<notAst, notFilter, notMarks, notPc>>

\* calls of getDeclarationWithContext while the script is marked and changed
VARIABLES
    ctxCache,        \* the module's cache: per script hash, per key, a context
    ctxScriptHash,   \* the hash of the script the nodes now belong to
    ctxLastHash,     \* the script hash of the last call
    ctxGeneration,   \* history: how often a call ran under another hash than the call before
    ctxMarked,       \* the nodes marked and not yet committed
    ctxOrigin,       \* the origin node of the last call
    ctxResult,       \* what the last call returned, and whether it collected
    ctxRuns,         \* history: per script hash and source hash, the origins collected for
    ctxLookups,      \* how many calls were made
    ctxEntryTree,    \* history: per script hash and key, whether the entry holds nodes of
                     \* the current tree or of an earlier one
    ctxResultTree,   \* history: the tree the nodes of the last result belong to
    ctxPc            \* "idle", "ready", "returned"

ctxVars == <<ctxCache, ctxScriptHash, ctxLastHash, ctxGeneration, ctxMarked, ctxOrigin,
             ctxResult, ctxRuns, ctxLookups, ctxEntryTree, ctxResultTree, ctxPc>>

\* the work-stack loop of getDeclarationWithContext, one iteration at a time
VARIABLES
    colOrigin,       \* originNode
    colMarked,       \* the nodes that are marked
    colExtra,        \* the reference link added to the links of the script
    colSt,           \* collectedContext, examineStack, collectedContextIds, collectedRanges, examinedIds
    colLog,          \* history: the nodes examined and collected, in order
    colPushes,       \* history: how many pushes examineStack took
    colResult,       \* what the call returned
    colPc            \* "idle", "loop", "returned"

colVars == <<colOrigin, colMarked, colExtra, colSt, colLog, colPushes, colResult, colPc>>

\* one run of resolveDefiniteBinaryExpressions on a script of one statement
VARIABLES
    foldScript,      \* the script: one binary expression of two numeric literals
    foldMarks,       \* the replacements the run staged
    foldPc           \* "idle", "start", "folded"

foldVars == <<foldScript, foldMarks, foldPc>>

\* the jobs of one process that run with the default iteration counter
VARIABLES
    itrValue,        \* DEFAULT_MAX_ITERATIONS.value
    itrStarts,       \* history: the value of the counter at the start of each job
    itrReads,        \* history: what the numeric uses of the running job returned
    itrPc            \* "idle", "between", "running"

itrVars == <<itrValue, itrStarts, itrReads, itrPc>>

\* runs of normalizeComputed on one script, each followed by applyChanges
VARIABLES
    ncScript,        \* the script
    ncFilter,        \* the candidate filter of the runs
    ncMarks,         \* the replacements the last run staged
    ncMatched,       \* history: the candidates of each run, in order
    ncPc             \* "idle", "run", "commit", "done"

ncVars == <<ncScript, ncFilter, ncMarks, ncMatched, ncPc>>

\* one call of createOrderedSrc(nodes, preserveOrder)
VARIABLES
    cosNodes,        \* nodes: the nodeIds of the list, in the order given
    cosPreserve,     \* preserveOrder
    cosI,            \* how many nodes of the list the loop is through
    cosParsed,       \* the nodes taken so far, each with the position it sorts at
    cosOutput,       \* the pieces of the returned string, in order
    cosPc            \* "idle", "loop", "returned"

cosVars == <<cosNodes, cosPreserve, cosI, cosParsed, cosOutput, cosPc>>

\* the families above, and the ones that follow them
earlierVars == <<litVars, sbVars, rlcVars, cliVars, notVars, ctxVars>>
lastVars == <<foldVars, itrVars, ncVars, cosVars>>
laterVars == <<colVars, lastVars>>

utilVars == <<earlierVars, laterVars>>

vars == <<cacheVars, engineVars, utilVars>>

\* real fingerprints and the representations of a missing one (null, undefined, '')
Hashes == {"hash-a", "hash-b", "hash-c"}
Missing == {"null", "undefined", ""}
Entries == {"e1", "e2"}
NONE == "none"
NO_HASH == "no-hash"

\* the slot a fingerprint argument is mapped to
hashKey(currentScriptHash) ==
    IF currentScriptHash \in Missing THEN NO_HASH ELSE currentScriptHash

\* the bucket the cache holds for a slot (0: none)
bucketOf(key) == IF key = NO_HASH THEN noHashCache ELSE cache

\* mutant: a change of fingerprint does not drop the prior bucket
getCache_keepsBucket(currentScriptHash) ==
    LET key == hashKey(currentScriptHash) IN
    /\ relevantScriptHash' = key
    /\ IF bucketOf(key) # 0
       THEN /\ ret' = bucketOf(key)
            /\ UNCHANGED <<cache, noHashCache, nextId>>
       ELSE /\ nextId <= MaxInstances
            /\ ret' = nextId
            /\ nextId' = nextId + 1
            /\ IF key = NO_HASH
               THEN noHashCache' = nextId /\ cache' = cache
               ELSE cache' = nextId /\ noHashCache' = noHashCache
    /\ UNCHANGED heap

\* mutant: a real fingerprint also invalidates the no-hash slot
getCache_dropsNoHash(currentScriptHash) ==
    LET key == hashKey(currentScriptHash) IN
    IF key = relevantScriptHash /\ bucketOf(key) # 0
    THEN /\ ret' = bucketOf(key)
         /\ UNCHANGED <<relevantScriptHash, cache, noHashCache, heap, nextId>>
    ELSE /\ nextId <= MaxInstances
         /\ relevantScriptHash' = key
         /\ ret' = nextId
         /\ nextId' = nextId + 1
         /\ IF key = NO_HASH
            THEN noHashCache' = nextId /\ cache' = 0
            ELSE cache' = nextId /\ noHashCache' = 0
         /\ UNCHANGED heap

\* getCache(F): the bucket of F; a different F drops the prior bucket, except
\* that the no-hash slot is never dropped
getCache(currentScriptHash) ==
    LET key == hashKey(currentScriptHash) IN
    IF key = relevantScriptHash /\ bucketOf(key) # 0
    THEN /\ ret' = bucketOf(key)
         /\ UNCHANGED <<relevantScriptHash, cache, noHashCache, heap, nextId>>
    ELSE /\ relevantScriptHash' = key
         /\ IF key = NO_HASH
            THEN /\ cache' = 0
                 /\ IF noHashCache # 0
                    THEN /\ ret' = noHashCache
                         /\ UNCHANGED <<noHashCache, nextId>>
                    ELSE /\ nextId <= MaxInstances
                         /\ ret' = nextId
                         /\ noHashCache' = nextId
                         /\ nextId' = nextId + 1
            ELSE /\ nextId <= MaxInstances
                 /\ ret' = nextId
                 /\ cache' = nextId
                 /\ nextId' = nextId + 1
                 /\ UNCHANGED noHashCache
         /\ UNCHANGED heap

\* mutant: flush also forgets the active fingerprint and its bucket
flush_forgetsHash ==
    /\ relevantScriptHash' = NONE
    /\ cache' = 0
    /\ UNCHANGED <<noHashCache, heap, nextId, ret>>

\* getCache.flush(): empties the current bucket, keeps F
flush ==
    /\ heap' = [r \in DOMAIN heap |->
                  IF r # 0 /\ r = bucketOf(relevantScriptHash) THEN {} ELSE heap[r]]
    /\ UNCHANGED <<relevantScriptHash, cache, noHashCache, nextId, ret>>

InitCache ==
    /\ relevantScriptHash = NONE
    /\ cache = 0
    /\ noHashCache = 0
    /\ heap = [r \in 1..MaxInstances |-> {}]
    /\ nextId = 1
    /\ ret = 0
    /\ lastOp = [op |-> "init", arg |-> NONE]
    /\ lastGetArg = NONE
    /\ flushedSince = FALSE
    /\ sameAsPrev = FALSE
    /\ noHashLog = {}

\* a caller asks for the bucket of a fingerprint
GetCache ==
    \E h \in Hashes \cup Missing :
        /\ getCache(h)
        /\ lastOp' = [op |-> "get", arg |-> h]
        /\ lastGetArg' = h
        /\ sameAsPrev' = (h = lastGetArg /\ ~flushedSince)
        /\ flushedSince' = FALSE
        /\ UNCHANGED <<noHashLog, engineVars, utilVars>>

\* a caller flushes the cache
Flush ==
    /\ flush
    /\ lastOp' = [op |-> "flush", arg |-> NONE]
    /\ flushedSince' = TRUE
    /\ noHashLog' = {}
    /\ UNCHANGED <<lastGetArg, sameAsPrev, engineVars, utilVars>>

\* a caller stores an entry in a bucket it was handed earlier (cache[key] = value)
Write ==
    \E r \in 1..(nextId - 1), e \in Entries :
        /\ e \notin heap[r]
        /\ heap' = [heap EXCEPT ![r] = @ \cup {e}]
        /\ lastOp' = [op |-> "write", arg |-> e]
        /\ noHashLog' = IF r = noHashCache THEN noHashLog \cup {e} ELSE noHashLog
        /\ UNCHANGED <<relevantScriptHash, cache, noHashCache, nextId, ret,
                       lastGetArg, flushedSince, sameAsPrev, engineVars,
                       utilVars>>

NextCache == GetCache \/ Flush \/ Write

(***************************************************************************)
(* Syntax trees.  A term is a node with its children nested in it; it is   *)
(* what print() shows and parse() reads, so it stands for source text.     *)
(* Numbers are counted in halves (the number 1 is 2), so that 0.5 and 1.5  *)
(* exist.                                                                  *)
(***************************************************************************)
NoValue == [t |-> "none", n |-> 0, s |-> <<>>]
Num(halves) == [t |-> "number", n |-> halves, s |-> <<>>]
Bool(b) == [t |-> "boolean", n |-> IF b THEN 1 ELSE 0, s |-> <<>>]
BigInt(n) == [t |-> "bigint", n |-> n, s |-> <<>>]
Str(chars) == [t |-> "string", n |-> 0, s |-> chars]

Node(type, operator, val, name, computed, kids) ==
    [type |-> type, operator |-> operator, value |-> val, name |-> name,
     computed |-> computed, kids |-> kids]
Literal(val) == Node("Literal", "", val, <<>>, FALSE, <<>>)
Identifier(name) == Node("Identifier", "", NoValue, name, FALSE, <<>>)
UnaryExpression(operator, argument) ==
    Node("UnaryExpression", operator, NoValue, <<>>, FALSE, <<argument>>)
BinaryExpression(operator, left, right) ==
    Node("BinaryExpression", operator, NoValue, <<>>, FALSE, <<left, right>>)
MemberExpression(object, property, computed) ==
    Node("MemberExpression", "", NoValue, <<>>, computed, <<object, property>>)
ExpressionStatement(expression) ==
    Node("ExpressionStatement", "", NoValue, <<>>, FALSE, <<expression>>)
Program(body) == Node("Program", "", NoValue, <<>>, FALSE, body)
CallExpression(callee, arguments) ==
    Node("CallExpression", "", NoValue, <<>>, FALSE, <<callee>> \o arguments)
LogicalExpression(operator, left, right) ==
    Node("LogicalExpression", operator, NoValue, <<>>, FALSE, <<left, right>>)
ArrayExpression(elements) == Node("ArrayExpression", "", NoValue, <<>>, FALSE, elements)
Property(key, val) == Node("Property", "", NoValue, <<>>, FALSE, <<key, val>>)
\* { [key]: val } when computed, { key: val } when not
KeyedProperty(key, val, computed) ==
    Node("Property", "", NoValue, <<>>, computed, <<key, val>>)
\* function (params) {}
FunctionExpression(params) ==
    Node("FunctionExpression", "", NoValue, <<>>, FALSE, params)
\* [key]() {} when computed, key() {} when not; the function has an empty body
MethodDefinition(key, computed) ==
    Node("MethodDefinition", "", NoValue, <<>>, computed, <<key, FunctionExpression(<<>>)>>)
\* (class { methods })
ClassExpression(methods) ==
    Node("ClassExpression", "", NoValue, <<>>, FALSE,
         <<Node("ClassBody", "", NoValue, <<>>, FALSE, methods)>>)
ObjectExpression(properties) ==
    Node("ObjectExpression", "", NoValue, <<>>, FALSE, properties)
\* a loop whose body is one statement and whose completion value is the body's
ForStatement(body) == Node("ForStatement", "", NoValue, <<>>, FALSE, <<body>>)

\* Internal value used to indicate eval failed
BAD_VALUE == Node("--BAD-VAL--", "", NoValue, <<>>, FALSE, <<>>)

RECURSIVE Size(_)
RECURSIVE SizeAll(_)
\* number of nodes of a term
Size(t) == 1 + SizeAll(t.kids)
SizeAll(ts) == IF ts = <<>> THEN 0 ELSE Size(Head(ts)) + SizeAll(Tail(ts))

\* mutant: sibling subtrees are numbered as if each were a single node
ChildIds_bySibling(ts, firstId) == [k \in 1..Len(ts) |-> firstId + k - 1]

RECURSIVE ChildIds(_, _)
\* the nodeIds of sibling subtrees laid out in pre-order from firstId
ChildIds(ts, firstId) ==
    IF ts = <<>> THEN <<>>
    ELSE <<firstId>> \o ChildIds(Tail(ts), firstId + Size(Head(ts)))

RECURSIVE Flatten(_, _, _)
RECURSIVE FlattenAll(_, _, _)
\* the flat nodes of a term in pre-order, the root getting nodeId id
Flatten(t, parentId, id) ==
    <<[nodeId |-> id, type |-> t.type, operator |-> t.operator, value |-> t.value,
       name |-> t.name, computed |-> t.computed, parentId |-> parentId,
       childIds |-> ChildIds(t.kids, id + 1), src |-> t]>>
    \o FlattenAll(t.kids, id, id + 1)
FlattenAll(ts, parentId, firstId) ==
    IF ts = <<>> THEN <<>>
    ELSE Flatten(Head(ts), parentId, firstId)
         \o FlattenAll(Tail(ts), parentId, firstId + Size(Head(ts)))

\* generateFlatAST: parse and build the flat array, nodeIds from 0 in pre-order
generateFlatAST(text) == Flatten(text, -1, 0)

\* the node of the flat array with a given nodeId
NodeAt(flat, id) == flat[id + 1]

\* typeMap[kind]: the nodeIds of the nodes of a kind, in order
typeMap(flat, kind) ==
    LET ofKind == SelectSeq(flat, LAMBDA n : n.type = kind)
    IN [k \in 1..Len(ofKind) |-> ofKind[k].nodeId]

(***************************************************************************)
(* Sandbox evaluation and literalisation.                                  *)
(***************************************************************************)
Undefined == [t |-> "undefined", n |-> 0, s |-> <<>>]
Null == [t |-> "null", n |-> 0, s |-> <<>>]
\* the number NaN
NaN == [t |-> "NaN", n |-> 0, s |-> <<>>]
\* an array of n elements, each the number 1, and a plain object of n
\* properties, each holding the number 1
Arr(n) == [t |-> "array", n |-> n, s |-> <<>>]
Obj(n) == [t |-> "plain", n |-> n, s |-> <<>>]
\* the infinite numbers
Infinity == [t |-> "Infinity", n |-> 1, s |-> <<>>]
NegativeInfinity == [t |-> "Infinity", n |-> -1, s |-> <<>>]
\* a function, and an object that is not plain data (a builtin, a host object)
Func == [t |-> "function", n |-> 1, s |-> <<>>]
HostObject == [t |-> "object", n |-> 1, s |-> <<>>]
Ok(v) == [ok |-> TRUE, v |-> v]
\* an exception inside the sandbox (ReferenceError, TypeError)
Thrown == [ok |-> FALSE, v |-> NoValue]

ToBoolean(v) ==
    CASE v.t = "string" -> v.s # <<>>
      [] v.t = "undefined" -> FALSE
      [] v.t \in {"array", "plain"} -> TRUE
      [] OTHER -> v.n # 0

DigitChars == <<"0", "1", "2", "3", "4", "5", "6", "7", "8", "9">>
Digits == {DigitChars[k] : k \in 1..Len(DigitChars)}
DigitValue(c) == (CHOOSE k \in 1..Len(DigitChars) : DigitChars[k] = c) - 1

RECURSIVE NatToChars(_)
\* the decimal digits of a natural number
NatToChars(n) ==
    IF n < 10 THEN <<DigitChars[n + 1]>>
    ELSE NatToChars(n \div 10) \o <<DigitChars[(n % 10) + 1]>>

\* String(x) of a number counted in halves
NumberToChars(halves) ==
    LET abs == IF halves < 0 THEN 0 - halves ELSE halves IN
    (IF halves < 0 THEN <<"-">> ELSE <<>>)
    \o NatToChars(abs \div 2)
    \o (IF abs % 2 = 1 THEN <<".", "5">> ELSE <<>>)

RECURSIVE DigitsToNat(_, _)
\* the natural number written by a run of digits, after the digits read so far
DigitsToNat(cs, acc) ==
    IF cs = <<>> THEN acc ELSE DigitsToNat(Tail(cs), 10 * acc + DigitValue(Head(cs)))

\* the longest run of digits a string starts with
LeadingDigits(cs) ==
    LET stop == IF \E k \in 1..Len(cs) : cs[k] \notin Digits
                THEN CHOOSE k \in 1..Len(cs) :
                         cs[k] \notin Digits /\ \A j \in 1..(k - 1) : cs[j] \in Digits
                ELSE Len(cs) + 1
    IN SubSeq(cs, 1, stop - 1)

\* an unsigned decimal text (digits, or digits followed by .5) as halves, or -1
UnsignedToHalves(cs) ==
    CHOOSE h \in {(IF ds = <<>> THEN -1
                   ELSE IF Len(ds) = Len(cs) THEN 2 * DigitsToNat(ds, 0)
                   ELSE IF SubSeq(cs, Len(ds) + 1, Len(cs)) = <<".", "5">>
                   THEN 2 * DigitsToNat(ds, 0) + 1
                   ELSE -1) : ds \in {LeadingDigits(cs)}} : TRUE

\* white space and line terminators
WhiteSpace == {" ", "\n"}

RECURSIVE TrimStart(_)
TrimStart(cs) ==
    IF cs # <<>> /\ Head(cs) \in WhiteSpace THEN TrimStart(Tail(cs)) ELSE cs
RECURSIVE TrimEnd(_)
TrimEnd(cs) ==
    IF cs # <<>> /\ cs[Len(cs)] \in WhiteSpace THEN TrimEnd(SubSeq(cs, 1, Len(cs) - 1))
    ELSE cs

\* Number(s) of a string: white space is trimmed; the empty string is 0, a
\* signed decimal text its value, a signed Infinity infinite, the rest NaN
StringToNumber(untrimmed) ==
    CHOOSE num \in
        {(IF cs = <<>> THEN Num(0)
          ELSE IF cs \in {<<"I", "n", "f", "i", "n", "i", "t", "y">>,
                          <<"+", "I", "n", "f", "i", "n", "i", "t", "y">>}
          THEN Infinity
          ELSE IF cs = <<"-", "I", "n", "f", "i", "n", "i", "t", "y">>
          THEN NegativeInfinity
          ELSE CHOOSE signed \in
                   {(IF h < 0 THEN NaN ELSE IF cs[1] = "-" THEN Num(0 - h) ELSE Num(h))
                    : h \in {UnsignedToHalves(IF cs[1] \in {"-", "+"} THEN Tail(cs)
                                              ELSE cs)}} : TRUE)
         : cs \in {TrimEnd(TrimStart(untrimmed))}} : TRUE

RECURSIVE JoinOnes(_)
\* [1, ..., 1].join(',')
JoinOnes(n) ==
    IF n = 0 THEN <<>> ELSE IF n = 1 THEN <<"1">> ELSE <<"1", ",">> \o JoinOnes(n - 1)

\* ToNumber of a value that is not a bigint (a bigint throws instead), as a value
ToNumeric(v) ==
    CASE v.t = "boolean" -> Num(2 * v.n)
      [] v.t = "string" -> StringToNumber(v.s)
      [] v.t = "array" -> StringToNumber(JoinOnes(v.n))
      [] v.t \in {"undefined", "NaN", "function", "object", "plain"} -> NaN
      [] OTHER -> Num(v.n)

\* String(x) of a value, as characters
ToStringChars(v) ==
    CASE v.t = "string" -> v.s
      [] v.t = "boolean" -> IF v.n = 1 THEN <<"t", "r", "u", "e">> ELSE <<"f", "a", "l", "s", "e">>
      [] v.t = "number" -> NumberToChars(v.n)
      [] v.t = "bigint" -> NumberToChars(2 * v.n)
      [] v.t = "null" -> <<"n", "u", "l", "l">>
      [] v.t = "NaN" -> <<"N", "a", "N">>
      [] v.t = "Infinity" ->
            (IF v.n < 0 THEN <<"-">> ELSE <<>>) \o <<"I", "n", "f", "i", "n", "i", "t", "y">>
      [] v.t = "function" -> <<"f", "u", "n", "c", "t", "i", "o", "n">>
      [] v.t \in {"object", "plain"} -> <<"[", "o", "b", "j", "e", "c", "t", "]">>
      [] v.t = "array" -> JoinOnes(v.n)
      [] OTHER -> <<"u", "n", "d", "e", "f", "i", "n", "e", "d">>

\* arithmetic on numbers that may be NaN (0 and -0 are not told apart)
Negate(x) == IF x.t = "NaN" THEN NaN ELSE Num(0 - x.n)
Plus(x, y) == IF x.t = "NaN" \/ y.t = "NaN" THEN NaN ELSE Num(x.n + y.n)
Minus(x, y) == IF x.t = "NaN" \/ y.t = "NaN" THEN NaN ELSE Num(x.n - y.n)

\* the globals of the sandbox that the model names: the pure subset ...
PureFunctions == {<<"a", "t", "o", "b">>}
PureObjects == {<<"M", "a", "t", "h">>}
\* ... and the host facilities, which must be unreachable
DisallowedGlobals ==
    {<<"c", "o", "n", "s", "o", "l", "e">>, <<"D", "a", "t", "e">>,
     <<"f", "e", "t", "c", "h">>, <<"r", "e", "q", "u", "i", "r", "e">>,
     <<"d", "o", "c", "u", "m", "e", "n", "t">>}
\* the members of the pure objects that the sandbox takes away
DisallowedMembers == {<<"r", "a", "n", "d", "o", "m">>}

\* a && b and a || b of an evaluated left operand l
EvalLogical(operator, l, right) ==
    IF ~l.ok THEN Thrown
    ELSE IF ToBoolean(l.v) = (operator = "&&") THEN right
    ELSE l

\* a unary operator applied to the evaluated operand a
EvalUnary(operator, a) ==
    IF ~a.ok THEN Thrown
    ELSE (CASE operator = "!" -> Ok(Bool(~ToBoolean(a.v)))
            [] operator = "-" ->
                 IF a.v.t = "bigint" THEN Ok(BigInt(0 - a.v.n))
                 ELSE Ok(Negate(ToNumeric(a.v)))
            [] operator = "+" ->
                 IF a.v.t = "bigint" THEN Thrown ELSE Ok(ToNumeric(a.v)))

\* + or - applied to the evaluated operands l and r
EvalBinary(operator, l, r) ==
    IF ~l.ok \/ ~r.ok THEN Thrown
    ELSE IF operator = "+" /\ (l.v.t = "string" \/ r.v.t = "string")
    THEN Ok(Str(ToStringChars(l.v) \o ToStringChars(r.v)))
    ELSE IF l.v.t = "bigint" /\ r.v.t = "bigint"
    THEN Ok(BigInt(IF operator = "+" THEN l.v.n + r.v.n ELSE l.v.n - r.v.n))
    ELSE IF l.v.t = "bigint" \/ r.v.t = "bigint"
    THEN Thrown
    ELSE Ok(IF operator = "+" THEN Plus(ToNumeric(l.v), ToNumeric(r.v))
            ELSE Minus(ToNumeric(l.v), ToNumeric(r.v)))

RECURSIVE Eval(_)
\* the value a fragment evaluates to in the sandbox, which has no host globals
\* beyond the pure subset: every other free identifier is a ReferenceError
Eval(t) ==
    CASE t.type = "Literal" -> Ok(t.value)
      [] t.type = "Identifier" ->
            IF t.name = ToStringChars(Undefined) THEN Ok(Undefined)
            ELSE IF t.name = ToStringChars(NaN) THEN Ok(NaN)
            ELSE IF t.name \in PureFunctions THEN Ok(Func)
            ELSE IF t.name \in PureObjects THEN Ok(HostObject)
            ELSE Thrown
      [] t.type = "ExpressionStatement" -> Eval(t.kids[1])
      [] t.type = "ForStatement" -> Eval(t.kids[1])
      [] t.type = "CallExpression" ->
            \* calling what is not a function is a TypeError; the one function
            \* of the model, atob, throws when it is called without an argument
            Thrown
      [] t.type = "MemberExpression" ->
            IF Eval(t.kids[1]).ok THEN Ok(Undefined) ELSE Thrown
      [] t.type = "ArrayExpression" ->
            IF \A k \in 1..Len(t.kids) : Eval(t.kids[k]).ok THEN Ok(Arr(Len(t.kids)))
            ELSE Thrown
      [] t.type = "ObjectExpression" ->
            IF \A k \in 1..Len(t.kids) : Eval(t.kids[k].kids[2]).ok
            THEN Ok(Obj(Len(t.kids)))
            ELSE Thrown
      [] t.type = "LogicalExpression" ->
            \* the right operand is evaluated only when the left one decides nothing
            CHOOSE res \in {EvalLogical(t.operator, l, Eval(t.kids[2]))
                            : l \in {Eval(t.kids[1])}} : TRUE
      [] t.type = "UnaryExpression" ->
            CHOOSE res \in {EvalUnary(t.operator, a) : a \in {Eval(t.kids[1])}} : TRUE
      [] t.type = "BinaryExpression" ->
            CHOOSE res \in {EvalBinary(t.operator, l, r)
                            : l \in {Eval(t.kids[1])}, r \in {Eval(t.kids[2])}} : TRUE

\* parseInt(s): the integer a string starts with (after an optional sign), or NaN
parseInt(cs) ==
    LET signed == cs # <<>> /\ cs[1] \in {"-", "+"}
        ds == LeadingDigits(IF signed THEN Tail(cs) ELSE cs)
    IN IF ds = <<>> THEN NaN
       ELSE IF cs[1] = "-" THEN Num(0 - 2 * DigitsToNat(ds, 0))
       ELSE Num(2 * DigitsToNat(ds, 0))

RECURSIVE createNewNode(_)
\* literalisation of a host value (createNewNode).  A string, number or boolean
\* whose text starts with -, + or ! and goes on with a number becomes a
\* UnaryExpression of that sign over the literalised rest of the text, which is
\* a string: -3 gives UnaryExpression('-', Literal('3')) and so does '-3'
createNewNode(v) ==
    CASE v.t \in {"string", "number", "boolean"} ->
            LET cs == ToStringChars(v) IN
            IF Len(cs) > 1 /\ cs[1] \in {"-", "+", "!"} /\ parseInt(Tail(cs)) # NaN
            THEN UnaryExpression(cs[1], createNewNode(Str(Tail(cs))))
            ELSE Literal(v)
      [] v.t = "undefined" -> Identifier(ToStringChars(Undefined))
      [] v.t = "NaN" -> Identifier(ToStringChars(NaN))
      [] v.t \in {"function", "object"} -> BAD_VALUE
      [] v.t = "array" -> ArrayExpression([k \in 1..v.n |-> Literal(Num(2))])
      [] v.t = "plain" ->
            ObjectExpression([k \in 1..v.n |->
                Property(Identifier(<<"a">>), Literal(Num(2)))])
      [] OTHER -> Literal(v)

\* evalInVm(fragmentSource): the literalised result, or BAD_VALUE
evalInVm(stringToEval) ==
    CHOOSE node \in {(IF r.ok THEN createNewNode(r.v) ELSE BAD_VALUE)
                     : r \in {Eval(stringToEval)}} : TRUE

(***************************************************************************)
(* The passes.                                                             *)
(***************************************************************************)
\* the filters a caller may compose on the candidate stream
Filters == {"acceptAll", "rejectAll", "rejectOddIds"}
applyFilter(filter, n) ==
    CASE filter = "acceptAll" -> TRUE
      [] filter = "rejectAll" -> FALSE
      [] filter = "rejectOddIds" -> n.nodeId % 2 = 0

\* the nodeIds of a list whose nodes a predicate accepts, in order
SelectIds(flat, ids, Test(_)) ==
    SelectSeq(ids, LAMBDA id : Test(NodeAt(flat, id)))

RESOLVABLE_ARGUMENT_TYPES == {"Literal", "ArrayExpression", "ObjectExpression", "UnaryExpression"}

RECURSIVE canUnaryExpressionBeResolved(_)
\* whether the argument of a unary expression is literal-reducible
canUnaryExpressionBeResolved(argument) ==
    CASE argument.type = "Literal" -> TRUE
      [] argument.type = "UnaryExpression" -> canUnaryExpressionBeResolved(argument.kids[1])
      [] argument.type \in {"ArrayExpression", "ObjectExpression"} -> argument.kids = <<>>
      [] OTHER -> FALSE

RECURSIVE doesBinaryExpressionContainOnlyLiterals(_)
\* whether the subtree of an expression is only literal-valued
doesBinaryExpressionContainOnlyLiterals(expression) ==
    CASE expression.type = "BinaryExpression" ->
            /\ doesBinaryExpressionContainOnlyLiterals(expression.kids[1])
            /\ doesBinaryExpressionContainOnlyLiterals(expression.kids[2])
      [] expression.type = "UnaryExpression" ->
            doesBinaryExpressionContainOnlyLiterals(expression.kids[1])
      [] expression.type = "Literal" -> TRUE
      [] OTHER -> FALSE

\* mutant: the operator of the candidate is not looked at
normalizeRedundantNotOperatorMatch_anyOperator(flat, filter) ==
    LET Test(n) == /\ n.src.kids[1].type \in RESOLVABLE_ARGUMENT_TYPES
                   /\ canUnaryExpressionBeResolved(n.src.kids[1])
                   /\ applyFilter(filter, n)
    IN SelectIds(flat, typeMap(flat, "UnaryExpression"), Test)

normalizeRedundantNotOperatorMatch(flat, filter) ==
    LET Test(n) == /\ n.operator = "!"
                   /\ n.src.kids[1].type \in RESOLVABLE_ARGUMENT_TYPES
                   /\ canUnaryExpressionBeResolved(n.src.kids[1])
                   /\ applyFilter(filter, n)
    IN SelectIds(flat, typeMap(flat, "UnaryExpression"), Test)

resolveDefiniteBinaryExpressionsMatch(flat, filter) ==
    LET Test(n) == /\ doesBinaryExpressionContainOnlyLiterals(n.src)
                   /\ applyFilter(filter, n)
    IN SelectIds(flat, typeMap(flat, "BinaryExpression"), Test)

\* the characters of the model's alphabet, by class
Letters == {"a", "b", "c", "d", "e", "f", "i", "l", "n", "r", "s", "t", "u", "N"}
\* /^[A-Za-z$_]/.test(value)
VALID_IDENTIFIER_BEGINNING(v) ==
    LET cs == ToStringChars(v) IN
    cs # <<>> /\ cs[1] \in Letters \cup {"$", "_"}
\* the regex that tests true for a string that cannot be used as a variable name
BAD_IDENTIFIER_CHARS_REGEX(v) ==
    LET cs == ToStringChars(v) IN
    \E k \in 1..Len(cs) :
        cs[k] \notin Letters \cup Digits \cup {"$", "_"}

\* node types that use 'key' instead of 'property' for computed access
RELEVANT_TYPES == {"MethodDefinition", "Property"}

\* where a node keeps its key among its children: object.property, key: value
relevantProperty(n) == IF n.type = "MemberExpression" THEN 2 ELSE 1

\* mutant: the characters after the first are not looked at
normalizeComputedMatch_noBadCharsTest(flat, filter) ==
    LET Test(n) == /\ n.computed
                   /\ \/ /\ n.type = "MemberExpression"
                         /\ n.src.kids[2].type = "Literal"
                         /\ VALID_IDENTIFIER_BEGINNING(n.src.kids[2].value)
                      \/ /\ n.type \in RELEVANT_TYPES
                         /\ n.src.kids[1].type = "Literal"
                         /\ VALID_IDENTIFIER_BEGINNING(n.src.kids[1].value)
                   /\ applyFilter(filter, n)
    IN SelectIds(flat, typeMap(flat, "MemberExpression")
                       \o typeMap(flat, "MethodDefinition")
                       \o typeMap(flat, "Property"), Test)

normalizeComputedMatch(flat, filter) ==
    LET Test(n) == /\ n.computed
                   /\ \/ /\ n.type = "MemberExpression"
                         /\ n.src.kids[2].type = "Literal"
                         /\ VALID_IDENTIFIER_BEGINNING(n.src.kids[2].value)
                         /\ ~BAD_IDENTIFIER_CHARS_REGEX(n.src.kids[2].value)
                      \/ /\ n.type \in RELEVANT_TYPES
                         /\ n.src.kids[1].type = "Literal"
                         /\ VALID_IDENTIFIER_BEGINNING(n.src.kids[1].value)
                         /\ ~BAD_IDENTIFIER_CHARS_REGEX(n.src.kids[1].value)
                   /\ applyFilter(filter, n)
    IN SelectIds(flat, typeMap(flat, "MemberExpression")
                       \o typeMap(flat, "MethodDefinition")
                       \o typeMap(flat, "Property"), Test)

NoMarks == << >>

\* Arborist.markNode: stage a replacement; a later mark on a node overwrites
markNode(m, n, replacement) ==
    [k \in (DOMAIN m) \cup {n.nodeId} |-> IF k = n.nodeId THEN replacement ELSE m[k]]

\* the outcome of a step of a pass: the marks, and whether an exception left it
Staged(m) == [marks |-> m, threw |-> FALSE]
Raised(m) == [marks |-> m, threw |-> TRUE]

\* mutant: the result of the sandbox is staged without looking at it
normalizeRedundantNotOperatorTransform_noBadValueCheck(m, n, throws) ==
    IF throws THEN Raised(m) ELSE Staged(markNode(m, n, evalInVm(n.src)))

\* normalizeRedundantNotOperatorTransform(arb, n, sharedSandbox); throws: whether
\* arb.markNode throws in this call
normalizeRedundantNotOperatorTransform(m, n, throws) ==
    LET replacement == evalInVm(n.src) IN
    IF replacement # BAD_VALUE
    THEN IF throws THEN Raised(m) ELSE Staged(markNode(m, n, replacement))
    ELSE Staged(m)

\* the file imports BAD_VALUE, Sandbox, evalInVm and
\* doesBinaryExpressionContainOnlyLiterals: no logger is in scope
loggerInScope == FALSE


\* typeof x.value === 'number' for an operand of a binary expression
IsNumberLiteral(t) == t.type = "Literal" /\ t.value.t = "number"

\* the body of the loop of resolveDefiniteBinaryExpressionsTransform for one match
resolveDefiniteBinaryExpressionsTransformBody(m, n, throws) ==
    LET replacement == evalInVm(n.src) IN
    IF replacement # BAD_VALUE
    THEN LET fixed ==
                 IF /\ replacement.type = "UnaryExpression"
                    /\ IsNumberLiteral(n.src.kids[1])
                    /\ IsNumberLiteral(n.src.kids[2])
                 THEN UnaryExpression(replacement.operator,
                          Literal(parseInt(ToStringChars(replacement.kids[1].value))))
                 ELSE replacement
         IN IF throws
            THEN \* catch (e) { logger.debug(e.message); }
                 IF loggerInScope THEN Staged(m) ELSE Raised(m)
            ELSE Staged(markNode(m, n, fixed))
    ELSE Staged(m)

RECURSIVE resolveDefiniteBinaryExpressionsLoop(_, _, _)
resolveDefiniteBinaryExpressionsLoop(m, flat, ids) ==
    IF ids = <<>> THEN m
    ELSE resolveDefiniteBinaryExpressionsLoop(
             resolveDefiniteBinaryExpressionsTransformBody(m, NodeAt(flat, Head(ids)), FALSE).marks,
             flat, Tail(ids))

\* resolveDefiniteBinaryExpressionsTransform(arb, matches), without exceptions.
\* arg is what the caller passes for matches: an array of nodes
\* [isArray |-> TRUE, items |-> nodeIds] or one node [isArray |-> FALSE, ...];
\* a node has no length, so !matches.length is true for it
resolveDefiniteBinaryExpressionsTransform(m, flat, arg) ==
    IF ~arg.isArray \/ Len(arg.items) = 0 THEN m
    ELSE resolveDefiniteBinaryExpressionsLoop(m, flat, arg.items)

\* normalizeComputedTransform(arb, n)
normalizeComputedTransform(m, n, throws) ==
    IF throws THEN Raised(m)
    ELSE Staged(markNode(m, n,
             [n.src EXCEPT !.computed = FALSE,
                           !.kids[relevantProperty(n)] =
                               Identifier(ToStringChars(@.value))]))

SafePasses == <<"normalizeComputed">>
UnsafePasses == <<"normalizeRedundantNotOperator", "resolveDefiniteBinaryExpressions">>

\* passMatch(arb, filter) of a pass
passMatch(P, flat, filter) ==
    CASE P = "normalizeComputed" -> normalizeComputedMatch(flat, filter)
      [] P = "normalizeRedundantNotOperator" -> normalizeRedundantNotOperatorMatch(flat, filter)
      [] P = "resolveDefiniteBinaryExpressions" -> resolveDefiniteBinaryExpressionsMatch(flat, filter)

\* the kind of node a pass looks at (its relevantNodes)
relevantType(P) ==
    CASE P = "normalizeComputed" -> "MemberExpression"
      [] P = "normalizeRedundantNotOperator" -> "UnaryExpression"
      [] P = "resolveDefiniteBinaryExpressions" -> "BinaryExpression"

\* mutant: the default entry point transforms every relevant node, matched or not
loopNodes_relevantNodes(P, flat, ms) == typeMap(flat, relevantType(P))

\* the nodes the default entry point of a pass hands to its transform: its matches
loopNodes(P, flat, ms) == ms

\* what the default entry point of a pass does with one of its matches
passBody(P, m, n, throws) ==
    CASE P = "normalizeComputed" -> normalizeComputedTransform(m, n, throws)
      [] P = "normalizeRedundantNotOperator" -> normalizeRedundantNotOperatorTransform(m, n, throws)
      [] P = "resolveDefiniteBinaryExpressions" ->
            resolveDefiniteBinaryExpressionsTransformBody(m, n, throws)

\* passTransform(arb, node): the exported transform called with one node
passTransform(P, m, flat, n) ==
    CASE P = "normalizeComputed" -> normalizeComputedTransform(m, n, FALSE).marks
      [] P = "normalizeRedundantNotOperator" ->
            normalizeRedundantNotOperatorTransform(m, n, FALSE).marks
      [] P = "resolveDefiniteBinaryExpressions" ->
            resolveDefiniteBinaryExpressionsTransform(m, flat,
                [isArray |-> FALSE, items |-> <<n.nodeId>>])

RECURSIVE TransformEach(_, _, _, _)
\* passTransform called once per node of a list, in order
TransformEach(P, m, flat, ids) ==
    IF ids = <<>> THEN m
    ELSE TransformEach(P, passTransform(P, m, flat, NodeAt(flat, Head(ids))), flat, Tail(ids))

\* passMatch(arb, filter), then passTransform(arb, node) for each returned node
MatchThenTransform(P, flat, filter) ==
    TransformEach(P, NoMarks, flat, passMatch(P, flat, filter))

(***************************************************************************)
(* Committing marks.                                                       *)
(***************************************************************************)
RECURSIVE generateCode(_, _, _)
\* the printed source of the subtree of node id with the marks committed
generateCode(flat, m, id) ==
    IF id \in DOMAIN m THEN m[id]
    ELSE LET n == NodeAt(flat, id) IN
         Node(n.type, n.operator, n.value, n.name, n.computed,
              [k \in 1..Len(n.childIds) |-> generateCode(flat, m, n.childIds[k])])

\* mutant: a commit that fails to parse leaves the staged marks in place
applyChanges_keepsMarks(parses) ==
    IF marks = NoMarks
    THEN /\ lastCommit' = "nothing"
         /\ UNCHANGED <<script, ast, marks>>
    ELSE IF parses
    THEN /\ script' = generateCode(ast, marks, 0)
         /\ ast' = generateFlatAST(script')
         /\ marks' = NoMarks
         /\ lastCommit' = "ok"
    ELSE /\ lastCommit' = "failed"
         /\ UNCHANGED <<script, ast, marks>>

\* mutant: a successful commit leaves the committed marks staged
applyChanges_marksNotCleared(parses) ==
    IF marks = NoMarks
    THEN /\ lastCommit' = "nothing"
         /\ UNCHANGED <<script, ast, marks>>
    ELSE IF parses
    THEN /\ script' = generateCode(ast, marks, 0)
         /\ ast' = generateFlatAST(script')
         /\ lastCommit' = "ok"
         /\ UNCHANGED marks
    ELSE /\ marks' = NoMarks
         /\ lastCommit' = "failed"
         /\ UNCHANGED <<script, ast>>

\* Arborist.applyChanges(): commit the marks, reparse the printed result and
\* rebuild; parses: whether the committed source parses
applyChanges(parses) ==
    IF marks = NoMarks
    THEN /\ lastCommit' = "nothing"
         /\ UNCHANGED <<script, ast, marks>>
    ELSE IF parses
    THEN /\ script' = generateCode(ast, marks, 0)
         /\ ast' = generateFlatAST(script')
         /\ marks' = NoMarks
         /\ lastCommit' = "ok"
    ELSE /\ marks' = NoMarks
         /\ lastCommit' = "failed"
         /\ UNCHANGED <<script, ast>>

(***************************************************************************)
(* Orchestrator.                                                           *)
(***************************************************************************)
\* largest iteration budget a job starts with, and longest program
MaxBudget == 2
MaxStatements == 2

\* mutant: reading the counter does not decrement it
valueOf_noDecrement(v) == [returned |-> v, value |-> v]

\* DEFAULT_MAX_ITERATIONS.valueOf(): return this.value--
valueOf(v) == [returned |-> v, value |-> v - 1]

\* the statements input programs are made of
Catalogue ==
    << ExpressionStatement(UnaryExpression("!", Literal(Bool(TRUE)))),
       ExpressionStatement(BinaryExpression("+", Literal(Num(2)), Literal(Num(4)))),
       ExpressionStatement(UnaryExpression("!",
           BinaryExpression("+", Literal(Num(2)), Literal(Num(4))))),
       ExpressionStatement(BinaryExpression("+", Literal(BigInt(1)), Literal(Num(2)))),
       ExpressionStatement(BinaryExpression("-", Literal(Num(1)), Literal(Num(4)))),
       ExpressionStatement(UnaryExpression("!", UnaryExpression("+", Literal(BigInt(1))))),
       ExpressionStatement(UnaryExpression("!", UnaryExpression("!", Literal(Bool(FALSE))))),
       ExpressionStatement(MemberExpression(Identifier(<<"a">>), Literal(Str(<<"b">>)), TRUE)),
       ExpressionStatement(UnaryExpression("!", Identifier(<<"a">>))),
       ExpressionStatement(MemberExpression(Identifier(<<"a">>), Literal(Str(<<"!">>)), TRUE)),
       ExpressionStatement(BinaryExpression("+", Identifier(<<"a">>), Literal(Num(2)))),
       ExpressionStatement(UnaryExpression("!",
           BinaryExpression("-", Literal(Bool(TRUE)), Literal(Num(2))))) >>

\* the input programs: runs of up to MaxStatements statements of the catalogue
Programs ==
    UNION { { Program(SubSeq(Catalogue, a, b)) :
                b \in { c \in a..Len(Catalogue) : c - a < MaxStatements } } :
            a \in 1..Len(Catalogue) }

passList(ph) == IF ph = "safe" THEN SafePasses ELSE UnsafePasses
currentPass == passList(phase)[passIdx]

\* what staging a mark and parsing a committed source may do in this job
Outcomes == IF faults THEN BOOLEAN ELSE {FALSE}

InitJob(withFaults) ==
    /\ script \in Programs
    /\ ast = generateFlatAST(script)
    /\ marks = NoMarks
    /\ candidateFilter \in Filters
    /\ faults = withFaults
    /\ value \in 0..MaxBudget
    /\ lastRead = value
    /\ pc = "guard"
    /\ phase = "safe"
    /\ passIdx = 1
    /\ matches = <<>>
    /\ i = 1
    /\ replacementNode = BAD_VALUE
    /\ snapshot = script
    /\ preScript = script
    /\ lastCommit = "none"
    /\ budget = value
    /\ iterations = 0
    /\ idle = 0

\* the state of the part of the program a specification does not run
IdleEngine ==
    /\ script = Program(<<>>)
    /\ ast = generateFlatAST(script)
    /\ marks = NoMarks
    /\ candidateFilter = "acceptAll"
    /\ faults = FALSE
    /\ value = 0
    /\ lastRead = 0
    /\ pc = "idle"
    /\ phase = "safe"
    /\ passIdx = 1
    /\ matches = <<>>
    /\ i = 1
    /\ replacementNode = BAD_VALUE
    /\ snapshot = script
    /\ preScript = script
    /\ lastCommit = "none"
    /\ budget = 0
    /\ iterations = 0
    /\ idle = 0

\* the loop condition: a numeric use of the iteration counter
LoopGuard ==
    /\ pc = "guard"
    /\ LET r == valueOf(value) IN
       /\ lastRead' = r.returned
       /\ value' = r.value
       /\ IF r.returned > 0
          THEN /\ pc' = "match"
               /\ phase' = "safe"
               /\ passIdx' = 1
               /\ snapshot' = script
               /\ iterations' = iterations + 1
          ELSE /\ pc' = "done"
               /\ UNCHANGED <<phase, passIdx, snapshot, iterations>>
    /\ UNCHANGED <<script, ast, marks, candidateFilter, faults, matches, i,
                   replacementNode, preScript, lastCommit, budget, idle, cacheVars, utilVars>>

\* the default entry point of the current pass runs its match function
PassMatch ==
    /\ pc = "match"
    /\ matches' = passMatch(currentPass, ast, candidateFilter)
    /\ i' = 1
    /\ preScript' = script
    /\ pc' = "transform"
    /\ UNCHANGED <<script, ast, marks, candidateFilter, faults, value, lastRead, phase,
                   passIdx, replacementNode, snapshot, lastCommit, budget, iterations,
                   idle, cacheVars, utilVars>>

\* the default entry point of the current pass transforms its next candidate
PassTransform ==
    /\ pc = "transform"
    /\ i <= Len(loopNodes(currentPass, ast, matches))
    /\ \E throws \in Outcomes :
         LET n == NodeAt(ast, loopNodes(currentPass, ast, matches)[i])
             out == passBody(currentPass, marks, n, throws)
         IN /\ replacementNode' = IF currentPass = "normalizeComputed"
                                  THEN replacementNode ELSE evalInVm(n.src)
            /\ marks' = out.marks
            /\ IF out.threw
               THEN pc' = "fatal" /\ i' = i
               ELSE pc' = "transform" /\ i' = i + 1
    /\ UNCHANGED <<script, ast, candidateFilter, faults, value, lastRead, phase, passIdx,
                   matches, snapshot, preScript, lastCommit, budget, iterations, idle,
                   cacheVars, utilVars>>

\* the default entry point of the current pass returns the Arborist
PassReturn ==
    /\ pc = "transform"
    /\ i > Len(loopNodes(currentPass, ast, matches))
    /\ pc' = "commit"
    /\ UNCHANGED <<script, ast, marks, candidateFilter, faults, value, lastRead, phase,
                   passIdx, matches, i, replacementNode, snapshot, preScript, lastCommit,
                   budget, iterations, idle, cacheVars, utilVars>>

\* the orchestrator commits after the pass and goes on with the next pass
ApplyChanges ==
    /\ pc = "commit"
    /\ \E failed \in Outcomes : applyChanges(~failed)
    /\ IF passIdx < Len(passList(phase))
       THEN pc' = "match" /\ passIdx' = passIdx + 1 /\ phase' = phase
       ELSE IF phase = "safe"
       THEN pc' = "match" /\ passIdx' = 1 /\ phase' = "unsafe"
       ELSE pc' = "iterationEnd" /\ passIdx' = passIdx /\ phase' = phase
    /\ UNCHANGED <<candidateFilter, faults, value, lastRead, matches, i, replacementNode,
                   snapshot, preScript, budget, iterations, idle, cacheVars, utilVars>>

\* the end of an iteration: stop when neither pass list changed the source
IterationEnd ==
    /\ pc = "iterationEnd"
    /\ IF script = snapshot
       THEN pc' = "done" /\ idle' = idle + 1
       ELSE pc' = "guard" /\ idle' = idle
    /\ UNCHANGED <<script, ast, marks, candidateFilter, faults, value, lastRead, phase,
                   passIdx, matches, i, replacementNode, snapshot, preScript, lastCommit,
                   budget, iterations, cacheVars, utilVars>>

NextEngine ==
    LoopGuard \/ PassMatch \/ PassTransform \/ PassReturn \/ ApplyChanges \/ IterationEnd

(***************************************************************************)
(* Literalisation of a host value, followed by the evaluation of the node  *)
(* it produced.                                                            *)
(***************************************************************************)
MaxLen == 3
MaxNum == 4

\* the characters of the strings handed to createNewNode
LitAlphabet == {"-", "+", "!", "3", "a"}

\* the finite primitive values: strings, numbers (in halves), booleans, null,
\* undefined and bigints
Primitives ==
    {Str(cs) : cs \in UNION {[1..k -> LitAlphabet] : k \in 0..MaxLen}}
    \cup {Num(h) : h \in (0 - MaxNum)..MaxNum}
    \cup {Bool(TRUE), Bool(FALSE), Null, Undefined}
    \cup {BigInt(b) : b \in (0 - MaxNum)..MaxNum}

InitLit ==
    /\ litValue \in Primitives
    /\ litNode = BAD_VALUE
    /\ litResult = Thrown
    /\ litPc = "value"

IdleLit ==
    /\ litValue = Undefined
    /\ litNode = BAD_VALUE
    /\ litResult = Thrown
    /\ litPc = "idle"

\* createNewNode(value)
CreateNewNode ==
    /\ litPc = "value"
    /\ litNode' = createNewNode(litValue)
    /\ litPc' = "node"
    /\ UNCHANGED <<litValue, litResult, cacheVars, engineVars, sbVars, rlcVars,
                   cliVars, notVars, ctxVars, laterVars>>

\* the printed node is evaluated again
Reevaluate ==
    /\ litPc = "node"
    /\ litResult' = Eval(litNode)
    /\ litPc' = "evaluated"
    /\ UNCHANGED <<litValue, litNode, cacheVars, engineVars, sbVars, rlcVars,
                   cliVars, notVars, ctxVars, laterVars>>

NextLit == CreateNewNode \/ Reevaluate

(***************************************************************************)
(* The sandbox evaluator under repeated calls.  A result is memoised in    *)
(* the cache; a fragment that loops may or may not exceed the wall-clock   *)
(* budget of a call.                                                       *)
(***************************************************************************)
Fragments ==
    { BinaryExpression("+", Literal(Str(<<"a">>)), Literal(Str(<<"b">>))),
      UnaryExpression("!", Literal(Bool(TRUE))),
      CallExpression(MemberExpression(Identifier(<<"M", "a", "t", "h">>),
                                      Identifier(<<"r", "a", "n", "d", "o", "m">>), FALSE),
                     <<>>),
      Identifier(<<"c", "o", "n", "s", "o", "l", "e">>),
      CallExpression(MemberExpression(Identifier(<<"D", "a", "t", "e">>),
                                      Identifier(<<"n", "o", "w">>), FALSE), <<>>),
      Identifier(<<"a", "t", "o", "b">>),
      Identifier(<<"M", "a", "t", "h">>),
      ForStatement(ExpressionStatement(
          BinaryExpression("+", Literal(Num(2)), Literal(Num(4))))) }

RECURSIVE ReachesDisallowed(_)
\* the fragment names a host facility: a disallowed global, or a member that
\* the sandbox takes away from a pure object
ReachesDisallowed(t) ==
    \/ t.type = "Identifier" /\ t.name \in DisallowedGlobals
    \/ /\ t.type = "MemberExpression"
       /\ t.kids[2].type = "Identifier"
       /\ t.kids[2].name \in DisallowedMembers
    \/ \E k \in 1..Len(t.kids) : ReachesDisallowed(t.kids[k])

RECURSIVE MayExceedBudget(_)
\* the running time of the fragment depends on the host: it holds a loop
MayExceedBudget(t) ==
    \/ t.type = "ForStatement"
    \/ \E k \in 1..Len(t.kids) : MayExceedBudget(t.kids[k])

\* the kinds of node that literalisation produces
NodeKinds == {"Literal", "Identifier", "UnaryExpression"}

\* no memoised result
NoEntry == Node("", "", NoValue, <<>>, FALSE, <<>>)

\* mutant: the result of a run is not memoised
evalInVmMemo_noStore(memo, f, timedOut) ==
    IF memo[f] # NoEntry THEN [result |-> memo[f], memo |-> memo]
    ELSE LET r == IF timedOut THEN BAD_VALUE ELSE evalInVm(f)
         IN [result |-> r, memo |-> memo]

\* evalInVm with its memo: a memoised result is returned as it is; otherwise the
\* fragment runs, a breach of the time budget gives BAD_VALUE, and the result
\* is memoised
evalInVmMemo(memo, f, timedOut) ==
    IF memo[f] # NoEntry THEN [result |-> memo[f], memo |-> memo]
    ELSE LET r == IF timedOut THEN BAD_VALUE ELSE evalInVm(f)
         IN [result |-> r, memo |-> [memo EXCEPT ![f] = r]]

InitSandbox ==
    /\ sbFragment \in Fragments
    /\ sbResult = NoEntry
    /\ sbMemo = [f \in Fragments |-> NoEntry]
    /\ sbFirst = [f \in Fragments |-> NoEntry]
    /\ sbSince = [f \in Fragments |-> NoEntry]
    /\ sbPc = "ready"

IdleSandbox ==
    /\ sbFragment = BAD_VALUE
    /\ sbResult = NoEntry
    /\ sbMemo = [f \in Fragments |-> NoEntry]
    /\ sbFirst = [f \in Fragments |-> NoEntry]
    /\ sbSince = [f \in Fragments |-> NoEntry]
    /\ sbPc = "idle"

\* a pass calls evalInVm(fragment)
EvalInVm ==
    /\ sbPc \in {"ready", "returned"}
    /\ \E f \in Fragments :
       \E timedOut \in (IF MayExceedBudget(f) THEN BOOLEAN ELSE {FALSE}) :
         LET out == evalInVmMemo(sbMemo, f, timedOut) IN
         /\ sbFragment' = f
         /\ sbResult' = out.result
         /\ sbMemo' = out.memo
         /\ sbFirst' = IF sbFirst[f] = NoEntry
                        THEN [sbFirst EXCEPT ![f] = out.result] ELSE sbFirst
         /\ sbSince' = IF sbSince[f] = NoEntry
                        THEN [sbSince EXCEPT ![f] = out.result] ELSE sbSince
    /\ sbPc' = "returned"
    /\ UNCHANGED <<cacheVars, engineVars, litVars, rlcVars, cliVars, notVars, ctxVars, laterVars>>

\* the active fingerprint changes: the bucket that holds the memo is dropped
PurgeMemo ==
    /\ sbPc = "returned"
    /\ sbMemo # [f \in Fragments |-> NoEntry]
    /\ sbMemo' = [f \in Fragments |-> NoEntry]
    /\ sbSince' = [f \in Fragments |-> NoEntry]
    /\ sbPc' = "ready"
    /\ UNCHANGED <<sbFragment, sbResult, sbFirst, cacheVars, engineVars, litVars,
                   rlcVars, cliVars, notVars, ctxVars, laterVars>>

NextSandbox == EvalInVm \/ PurgeMemo

(***************************************************************************)
(* resolveLocalCalls.  The script is seen through its CallExpressions:     *)
(* which local declaration each one calls, which call encloses it, and     *)
(* whether one of its arguments is of a bad kind.                          *)
(***************************************************************************)
MaxCalls == 3

\* the local declarations of the scripts, by name:
\*   f   function f(a) {return a + 1;}
\*   g   var g = function () {return 1 + 1;};  g = function () {return 3;};
\*   w   function w() {return 1;}
\*   v   var v = function () {return 1;};
\*   h   function h() {return console.log;}
\*   toString   function toString() {return 1 + 1;}
\*   u   not declared in the script
\* type is the type of declNode.parentNode, returns the type of the argument
\* of the return statement that declNode.parentNode.body.body starts with (a
\* VariableDeclarator has no body), initReturns the same for the function that
\* a declarator is initialised with, references the uses of the binding,
\* evaluates the kind of result evalInVm gives for a call
LocalDecls ==
    [f |-> [declared |-> TRUE, type |-> "FunctionDeclaration",
            returns |-> "BinaryExpression", initReturns |-> "none",
            references |-> <<"call">>, evaluates |-> "node"],
     g |-> [declared |-> TRUE, type |-> "VariableDeclarator",
            returns |-> "none", initReturns |-> "BinaryExpression",
            references |-> <<"assignment", "call">>, evaluates |-> "node"],
     w |-> [declared |-> TRUE, type |-> "FunctionDeclaration",
            returns |-> "Literal", initReturns |-> "none",
            references |-> <<"call">>, evaluates |-> "node"],
     v |-> [declared |-> TRUE, type |-> "VariableDeclarator",
            returns |-> "none", initReturns |-> "Literal",
            references |-> <<"call">>, evaluates |-> "node"],
     h |-> [declared |-> TRUE, type |-> "FunctionDeclaration",
            returns |-> "MemberExpression", initReturns |-> "none",
            references |-> <<"call">>, evaluates |-> "badValue"],
     toString |-> [declared |-> TRUE, type |-> "FunctionDeclaration",
            returns |-> "BinaryExpression", initReturns |-> "none",
            references |-> <<"call">>, evaluates |-> "node"],
     u |-> [declared |-> FALSE, type |-> "none",
            returns |-> "none", initReturns |-> "none",
            references |-> <<>>, evaluates |-> "badValue"]]

CalleeNames == DOMAIN LocalDecls

\* the uses of a binding that change it: assignment, update, assignment to or
\* delete of a property, loop target, mutating method call, destructuring target
ModifyingUses ==
    {"assignment", "update", "propertyAssignment", "delete", "loopTarget",
     "mutatingMethod", "destructuring"}

\* areReferencesModified(ast, refs)
areReferencesModified(refs) == \E k \in 1..Len(refs) : refs[k] \in ModifyingUses

\* config: badArgumentTypes
BAD_ARGUMENT_TYPES == {"ThisExpression"}

RECURSIVE IsAncestor(_, _, _)
\* call a encloses call k (a chain of parent links leads from k to a)
IsAncestor(calls, a, k) ==
    /\ k # 0
    /\ calls[k].parent # 0
    /\ (calls[k].parent = a \/ IsAncestor(calls, a, calls[k].parent))

\* the calls are in nodeId order, which is pre-order: a call is enclosed by the
\* call before it, by one that encloses the call before it, or by none
WellNested(calls) ==
    \A k \in 1..Len(calls) :
        \/ calls[k].parent = 0
        \/ k > 1 /\ (calls[k].parent = k - 1 \/ IsAncestor(calls, calls[k].parent, k - 1))

\* the scripts: up to MaxCalls calls
CallLists ==
    UNION { { calls \in [1..n -> [callee : CalleeNames, parent : 0..(n - 1),
                                  argument : {"Literal", "ThisExpression"}]] :
                WellNested(calls) } : n \in 1..MaxCalls }

\* node.range of a call: it spans the calls it encloses
RangeOf(calls, k) ==
    LET inside == Cardinality({j \in 1..Len(calls) : IsAncestor(calls, k, j)})
    IN <<2 * k - 1, 2 * (k + inside)>>

\* mutant: no node is ever found inside a range
isNodeInRanges_never(range, ranges) == FALSE

\* isNodeInRanges(targetNode, ranges)
isNodeInRanges(range, ranges) ==
    \E k \in 1..Len(ranges) : range[1] >= ranges[k][1] /\ range[2] <= ranges[k][2]

\* the filter of resolveLocalCalls: a call whose callee has a declaration
IsCandidate(calls, k) == LocalDecls[calls[k].callee].declared

\* how many candidates call name
Frequency(calls, name) ==
    Cardinality({k \in 1..Len(calls) : IsCandidate(calls, k) /\ calls[k].callee = name})

\* the names an empty object literal inherits from Object.prototype
ObjectPrototypeKeys == {"toString"}

\* frequency[name] after the forEach: `if (!frequency[name]) frequency[name] = 0;
\* frequency[name]++` counts from 0 for a name that frequency does not hold.
\* For an inherited name the first ++ is applied to the inherited function and
\* stores NaN, the second finds NaN, which is falsy, and starts from 0
frequency(calls, name) ==
    IF name \in ObjectPrototypeKeys
    THEN (IF Frequency(calls, name) = 1 THEN [nan |-> TRUE, n |-> 0]
          ELSE [nan |-> FALSE, n |-> Frequency(calls, name) - 1])
    ELSE [nan |-> FALSE, n |-> Frequency(calls, name)]

\* x < y of two entries of frequency: false when one of them is NaN
FrequencyLess(x, y) == ~x.nan /\ ~y.nan /\ x.n < y.n

\* const sortByFrequency = (a, b) => ...
sortByFrequencyCompare(calls, a, b) ==
    IF FrequencyLess(frequency(calls, calls[a].callee), frequency(calls, calls[b].callee))
    THEN 1
    ELSE IF FrequencyLess(frequency(calls, calls[b].callee), frequency(calls, calls[a].callee))
    THEN -1
    ELSE 0

RECURSIVE InsertByFrequency(_, _, _)
\* stable insertion: k goes after every element that the comparator does not
\* put after it
InsertByFrequency(calls, sorted, k) ==
    IF sorted = <<>> THEN <<k>>
    ELSE IF sortByFrequencyCompare(calls, Head(sorted), k) > 0
    THEN <<k>> \o sorted
    ELSE <<Head(sorted)>> \o InsertByFrequency(calls, Tail(sorted), k)

RECURSIVE sortByFrequency(_, _)
\* candidates.sort(sortByFrequency) as a stable sort
sortByFrequency(calls, ks) ==
    IF ks = <<>> THEN <<>>
    ELSE InsertByFrequency(calls, sortByFrequency(calls, SubSeq(ks, 1, Len(ks) - 1)),
                           ks[Len(ks)])

\* the candidates of resolveLocalCalls, in nodeId order
Candidates(calls) ==
    SelectSeq([k \in 1..Len(calls) |-> k], LAMBDA k : IsCandidate(calls, k))

\* the comparator is consistent on the candidates: what it calls equal is
\* transitive (a NaN entry compares equal to every entry)
ConsistentComparator(calls, ks) ==
    \A a, b, c \in {ks[k] : k \in 1..Len(ks)} :
        (sortByFrequencyCompare(calls, a, b) = 0 /\ sortByFrequencyCompare(calls, b, c) = 0)
            => sortByFrequencyCompare(calls, a, c) = 0

\* the orders Array.prototype.sort may leave the candidates in: the stable
\* order for a consistent comparator, an implementation-defined one otherwise
SortOutcomes(calls, ks) ==
    IF ConsistentComparator(calls, ks) THEN {sortByFrequency(calls, ks)}
    ELSE {order \in [1..Len(ks) -> {ks[k] : k \in 1..Len(ks)}] :
              \A j, k \in 1..Len(ks) : order[j] = order[k] => j = k}

\* the body of the loop of resolveLocalCalls for candidate c
resolveLocalCallsBody(calls, c, marked, ranges, contexts) ==
    LET decl == LocalDecls[calls[c].callee]
        skip == [marks |-> marked, ranges |-> ranges, contexts |-> contexts]
    IN IF calls[c].argument \in BAD_ARGUMENT_TYPES THEN skip
       ELSE IF isNodeInRanges(RangeOf(calls, c), ranges) THEN skip
       ELSE IF decl.returns \in {"Literal", "Identifier", "FunctionExpression",
                                 "ArrowFunctionExpression", "applyShell"} THEN skip
       ELSE LET collected == contexts \cup {calls[c].callee} IN
            IF decl.evaluates = "node"
            THEN [marks |-> marked \cup {c},
                  ranges |-> Append(ranges, RangeOf(calls, c)),
                  contexts |-> collected]
            ELSE [marks |-> marked, ranges |-> ranges, contexts |-> collected]

InitLocalCalls ==
    /\ rlcCalls \in CallLists
    /\ rlcOrder = <<>>
    /\ rlcI = 1
    /\ rlcMarks = {}
    /\ modifiedRanges = <<>>
    /\ rlcContexts = {}
    /\ rlcPc = "start"

IdleLocalCalls ==
    /\ rlcCalls = <<>>
    /\ rlcOrder = <<>>
    /\ rlcI = 1
    /\ rlcMarks = {}
    /\ modifiedRanges = <<>>
    /\ rlcContexts = {}
    /\ rlcPc = "idle"

\* resolveLocalCalls(arb): the candidates are found and sorted
RlcCollect ==
    /\ rlcPc = "start"
    /\ rlcOrder' \in SortOutcomes(rlcCalls, Candidates(rlcCalls))
    /\ rlcI' = 1
    /\ rlcPc' = "loop"
    /\ UNCHANGED <<rlcCalls, rlcMarks, modifiedRanges, rlcContexts, cacheVars,
                   engineVars, litVars, sbVars, cliVars, notVars, ctxVars, laterVars>>

\* one turn of the loop over the sorted candidates
RlcStep ==
    /\ rlcPc = "loop"
    /\ rlcI <= Len(rlcOrder)
    /\ LET out == resolveLocalCallsBody(rlcCalls, rlcOrder[rlcI], rlcMarks,
                                        modifiedRanges, rlcContexts)
       IN /\ rlcMarks' = out.marks
          /\ modifiedRanges' = out.ranges
          /\ rlcContexts' = out.contexts
    /\ rlcI' = rlcI + 1
    /\ UNCHANGED <<rlcCalls, rlcOrder, rlcPc, cacheVars, engineVars, litVars, sbVars,
                   cliVars, notVars, ctxVars, laterVars>>

\* return arb
RlcReturn ==
    /\ rlcPc = "loop"
    /\ rlcI > Len(rlcOrder)
    /\ rlcPc' = "returned"
    /\ UNCHANGED <<rlcCalls, rlcOrder, rlcI, rlcMarks, modifiedRanges, rlcContexts,
                   cacheVars, engineVars, litVars, sbVars, cliVars, notVars, ctxVars, laterVars>>

NextLocalCalls == RlcCollect \/ RlcStep \/ RlcReturn

(***************************************************************************)
(* The command line: parseArgs and argsAreValid.  An argument is a         *)
(* sequence of characters; a flag pattern is matched as its regular        *)
(* expression matches.                                                     *)
(***************************************************************************)
\* the line terminators, which the dot of a regular expression does not match
LineTerminators == {"\n"}

\* s.startsWith(prefix)
startsWith(cs, prefix) ==
    Len(cs) >= Len(prefix) /\ SubSeq(cs, 1, Len(prefix)) = prefix

\* the alternatives of each pattern: whole arguments for the anchored ones,
\* prefixes for the ones that end with (.*)$
FLAG_PATTERNS ==
    [help |-> {<<"-", "h">>, <<"-", "-", "h", "e", "l", "p">>},
     clean |-> {<<"-", "c">>, <<"-", "-", "c", "l", "e", "a", "n">>},
     quiet |-> {<<"-", "q">>, <<"-", "-", "q", "u", "i", "e", "t">>},
     verbose |-> {<<"-", "v">>, <<"-", "-", "v", "e", "r", "b", "o", "s", "e">>},
     output |-> {<<"-", "o">>, <<"-", "-", "o", "u", "t", "p", "u", "t">>},
     outputWithValue |-> {<<"-", "o", "=">>, <<"-", "-", "o", "u", "t", "p", "u", "t", "=">>},
     maxIterations |-> {<<"-", "m">>, <<"-", "-", "m", "a", "x", "-", "i", "t", "e", "r", "a", "t", "i", "o", "n", "s">>},
     maxIterationsWithValue |-> {<<"-", "m", "=">>, <<"-", "-", "m", "a", "x", "-", "i", "t", "e", "r", "a", "t", "i", "o", "n", "s", "=">>}]

\* pattern.test(arg) for a pattern ^(a|b)$
test(pattern, arg) == arg \in pattern

\* pattern.test(arg) for a pattern ^(a=|b=)(.*)$
testWithValue(pattern, arg) ==
    \E p \in pattern :
        /\ startsWith(arg, p)
        /\ \A k \in (Len(p) + 1)..Len(arg) : arg[k] \notin LineTerminators

\* the second group of the match taken one character early
execValue_fromEqualSign(pattern, arg) ==
    LET p == CHOOSE q \in pattern : startsWith(arg, q)
    IN SubSeq(arg, Len(p), Len(arg))

\* pattern.exec(arg)[2] for a pattern ^(a=|b=)(.*)$ that matches
execValue(pattern, arg) ==
    LET p == CHOOSE q \in pattern : startsWith(arg, q)
    IN SubSeq(arg, Len(p) + 1, Len(arg))

DeobSuffix == <<"-", "d", "e", "o", "b", ".", "j", "s">>

createDefaultOptions(inputFilename) ==
    [inputFilename |-> inputFilename,
     help |-> FALSE,
     clean |-> FALSE,
     quiet |-> FALSE,
     verbose |-> FALSE,
     outputToFile |-> FALSE,
     maxIterations |-> Bool(FALSE),
     outputFilename |-> IF inputFilename # <<>> THEN inputFilename \o DeobSuffix
                        ELSE DeobSuffix]

\* !isNaN(Number(v)) && Number(v) > 0
IsNumberAboveZero(cs) ==
    LET x == StringToNumber(cs) IN x.t \in {"number", "Infinity"} /\ x.n > 0

\* the loop of parseArgs from index idx on (indices count from 1 here)
RECURSIVE parseArgsLoop(_, _, _)
parseArgsLoop(args, idx, opts) ==
    IF idx > Len(args) THEN opts
    ELSE
    LET arg == args[idx]
        \* args[idx + 1]: undefined past the end, which is as falsy as ''
        nextArg == IF idx < Len(args) THEN args[idx + 1] ELSE <<>>
        nextIsValue == nextArg # <<>> /\ ~startsWith(nextArg, <<"-">>)
    IN
    IF idx = 1 /\ ~startsWith(arg, <<"-">>)
    THEN parseArgsLoop(args, idx + 1, opts)
    ELSE IF test(FLAG_PATTERNS.help, arg)
    THEN parseArgsLoop(args, idx + 1, [opts EXCEPT !.help = TRUE])
    ELSE IF test(FLAG_PATTERNS.clean, arg)
    THEN parseArgsLoop(args, idx + 1, [opts EXCEPT !.clean = TRUE])
    ELSE IF test(FLAG_PATTERNS.quiet, arg)
    THEN parseArgsLoop(args, idx + 1, [opts EXCEPT !.quiet = TRUE])
    ELSE IF test(FLAG_PATTERNS.verbose, arg)
    THEN parseArgsLoop(args, idx + 1, [opts EXCEPT !.verbose = TRUE])
    ELSE IF test(FLAG_PATTERNS.output, arg)
    THEN IF nextIsValue
         THEN parseArgsLoop(args, idx + 2,
                            [opts EXCEPT !.outputToFile = TRUE, !.outputFilename = nextArg])
         ELSE parseArgsLoop(args, idx + 1, [opts EXCEPT !.outputToFile = TRUE])
    ELSE IF testWithValue(FLAG_PATTERNS.outputWithValue, arg)
    THEN LET given == execValue(FLAG_PATTERNS.outputWithValue, arg) IN
         IF given # <<>>
         THEN parseArgsLoop(args, idx + 1,
                            [opts EXCEPT !.outputToFile = TRUE, !.outputFilename = given])
         ELSE parseArgsLoop(args, idx + 1, [opts EXCEPT !.outputToFile = TRUE])
    ELSE IF test(FLAG_PATTERNS.maxIterations, arg)
    THEN IF nextIsValue /\ IsNumberAboveZero(nextArg)
         THEN parseArgsLoop(args, idx + 2,
                            [opts EXCEPT !.maxIterations = StringToNumber(nextArg)])
         ELSE parseArgsLoop(args, idx + 1, [opts EXCEPT !.maxIterations = Null])
    ELSE IF testWithValue(FLAG_PATTERNS.maxIterationsWithValue, arg)
    THEN LET given == execValue(FLAG_PATTERNS.maxIterationsWithValue, arg) IN
         IF given # <<>> /\ IsNumberAboveZero(given)
         THEN parseArgsLoop(args, idx + 1,
                            [opts EXCEPT !.maxIterations = StringToNumber(given)])
         ELSE parseArgsLoop(args, idx + 1, [opts EXCEPT !.maxIterations = Null])
    ELSE parseArgsLoop(args, idx + 1, opts)

\* parseArgs(args) for an array of strings, as process.argv.slice(2) is
parseArgs(args) ==
    LET inputFilename == IF Len(args) > 0 /\ args[1] # <<>>
                            /\ ~startsWith(args[1], <<"-">>)
                         THEN args[1] ELSE <<>>
    IN parseArgsLoop(args, 1, createDefaultOptions(inputFilename))

\* argsAreValid without the check of the mutually exclusive flags
argsAreValid_noExclusion(opts) ==
    IF opts.help THEN FALSE
    ELSE IF opts.inputFilename = <<>> THEN FALSE
    ELSE IF opts.maxIterations = Null THEN FALSE
    ELSE TRUE

argsAreValid(opts) ==
    IF opts.help THEN FALSE
    ELSE IF opts.inputFilename = <<>> THEN FALSE
    ELSE IF opts.verbose /\ opts.quiet THEN FALSE
    ELSE IF opts.maxIterations = Null THEN FALSE
    ELSE TRUE

\* the most flags and values that follow the input filename
MaxFlags == 2

InputFile == <<"f", ".", "j", "s">>

\* the values a flag is given: a positive integer, zero, a negative number, a
\* word, a fraction, the infinite number, a number followed by a line break,
\* and nothing
ArgValues == 
    {<<"5">>,
     <<"0">>,
     <<"-", "5">>,
     <<"a">>,
     <<"1", ".", "5">>,
     <<"I", "n", "f", "i", "n", "i", "t", "y">>,
     <<"5", "\n">>,
     <<>>}

ArgTokens ==
    FLAG_PATTERNS.help \cup FLAG_PATTERNS.clean \cup FLAG_PATTERNS.quiet
    \cup FLAG_PATTERNS.verbose \cup FLAG_PATTERNS.output \cup FLAG_PATTERNS.maxIterations
    \cup {p \o v : p \in FLAG_PATTERNS.outputWithValue
                           \cup FLAG_PATTERNS.maxIterationsWithValue,
                  v \in ArgValues}
    \cup ArgValues

\* the command lines: at most MaxFlags flags and values, after the input
\* filename or without one
InitArgs ==
    /\ \E prefix \in {<<>>, <<InputFile>>}, k \in 0..MaxFlags :
          \E rest \in [1..k -> ArgTokens] : cliArgs = prefix \o rest
    /\ cliOpts = createDefaultOptions(<<>>)
    /\ cliValid = FALSE
    /\ cliPc = "start"

IdleArgs ==
    /\ cliArgs = <<>>
    /\ cliOpts = createDefaultOptions(<<>>)
    /\ cliValid = FALSE
    /\ cliPc = "idle"

\* parseArgs(args)
ParseArgs ==
    /\ cliPc = "start"
    /\ cliOpts' = parseArgs(cliArgs)
    /\ cliPc' = "parsed"
    /\ UNCHANGED <<cliArgs, cliValid, cacheVars, engineVars, litVars, sbVars, rlcVars,
                   notVars, ctxVars, laterVars>>

\* argsAreValid(opts)
ArgsAreValid ==
    /\ cliPc = "parsed"
    /\ cliValid' = argsAreValid(cliOpts)
    /\ cliPc' = "validated"
    /\ UNCHANGED <<cliArgs, cliOpts, cacheVars, engineVars, litVars, sbVars, rlcVars,
                   notVars, ctxVars, laterVars>>

NextArgs == ParseArgs \/ ArgsAreValid

(***************************************************************************)
(* One run of normalizeRedundantNotOperator on one expression.             *)
(***************************************************************************)
\* the longest chain of NOT operators
MaxNots == 3

\* what the NOT operators are applied to
NotOperands ==
    {Literal(Bool(TRUE)), Literal(Bool(FALSE)), Literal(Num(0)), Literal(Num(2)),
     Literal(Str(<<>>)), Literal(Str(<<"a">>)), Literal(Null), Literal(BigInt(1)),
     ArrayExpression(<<>>), ArrayExpression(<<Literal(Num(2))>>),
     ObjectExpression(<<>>),
     ObjectExpression(<<Property(Identifier(<<"a">>), Literal(Num(2)))>>),
     UnaryExpression("-", Literal(Num(2))),
     UnaryExpression("+", Literal(BigInt(1))),
     UnaryExpression("-", Identifier(<<"a">>)),
     Identifier(<<"a">>), Identifier(ToStringChars(Undefined)),
     MemberExpression(Identifier(<<"a">>), Identifier(<<"b">>), FALSE),
     CallExpression(Identifier(<<"a">>), <<>>),
     BinaryExpression("+", Literal(Num(2)), Literal(Num(4))),
     BinaryExpression("+", Identifier(<<"a">>), Identifier(<<"b">>)),
     LogicalExpression("&&", Literal(Bool(TRUE)), Literal(Bool(FALSE))),
     LogicalExpression("||", Identifier(<<"a">>), Identifier(<<"b">>))}

RECURSIVE NotChain(_, _)
\* k NOT operators in front of an expression
NotChain(k, x) == IF k = 0 THEN x ELSE UnaryExpression("!", NotChain(k - 1, x))

RECURSIVE normalizeRedundantNotOperatorLoop(_, _, _)
\* the loop of the default entry point over its matches
normalizeRedundantNotOperatorLoop(m, flat, ids) ==
    IF ids = <<>> THEN m
    ELSE normalizeRedundantNotOperatorLoop(
             normalizeRedundantNotOperatorTransform(m, NodeAt(flat, Head(ids)), FALSE).marks,
             flat, Tail(ids))

\* normalizeRedundantNotOperator(arb, candidateFilter): the marks it stages
normalizeRedundantNotOperator(flat, filter) ==
    LET found == normalizeRedundantNotOperatorMatch(flat, filter) IN
    IF Len(found) = 0 THEN NoMarks
    ELSE normalizeRedundantNotOperatorLoop(NoMarks, flat, found)

InitNot ==
    /\ \E k \in 0..MaxNots, x \in NotOperands :
          notAst = generateFlatAST(Program(<<ExpressionStatement(NotChain(k, x))>>))
    /\ notFilter \in Filters
    /\ notMarks = NoMarks
    /\ notPc = "start"

IdleNot ==
    /\ notAst = <<>>
    /\ notFilter = "acceptAll"
    /\ notMarks = NoMarks
    /\ notPc = "idle"

\* normalizeRedundantNotOperator(arb, candidateFilter)
NormalizeRedundantNotOperator ==
    /\ notPc = "start"
    /\ notMarks' = normalizeRedundantNotOperator(notAst, notFilter)
    /\ notPc' = "returned"
    /\ UNCHANGED <<notAst, notFilter, cacheVars, engineVars, litVars, sbVars, rlcVars,
                   cliVars, ctxVars, laterVars>>

NextNot == NormalizeRedundantNotOperator

(***************************************************************************)
(* getDeclarationWithContext: the collection of the context of an origin   *)
(* node, and the module's cache of its results.                            *)
(***************************************************************************)
\* the most calls of getDeclarationWithContext in a run
MaxLookups == 3

\* the nodes of the script
\*     function a() {return b;}  var b = 1;  a();  a();  b = c;
\* in nodeId order (node k is element k + 1).  The last literal c is what
\* differs between the scripts of the model.  collects is what the scope
\* analysis yields for the node (the declarations its scope refers to, the
\* assignments to and the references of a declarator, the declaration of an
\* identifier), pushes what the switch puts on examineStack directly (the
\* right side of an assignment, the property of a member expression).
ScriptNodes ==
    << [type |-> "Program", parentNode |-> -1, childNodes |-> <<1, 6, 10, 13, 16>>,
        collects |-> <<>>, pushes |-> <<>>, src |-> "program", varies |-> TRUE],
       [type |-> "FunctionDeclaration", parentNode |-> 0, childNodes |-> <<2, 3>>,
        collects |-> <<7>>, pushes |-> <<>>, src |-> "function a() {return b;}", varies |-> FALSE],
       [type |-> "Identifier", parentNode |-> 1, childNodes |-> <<>>,
        collects |-> <<>>, pushes |-> <<>>, src |-> "a", varies |-> FALSE],
       [type |-> "BlockStatement", parentNode |-> 1, childNodes |-> <<4>>,
        collects |-> <<7>>, pushes |-> <<>>, src |-> "{return b;}", varies |-> FALSE],
       [type |-> "ReturnStatement", parentNode |-> 3, childNodes |-> <<5>>,
        collects |-> <<7>>, pushes |-> <<>>, src |-> "return b;", varies |-> FALSE],
       [type |-> "Identifier", parentNode |-> 4, childNodes |-> <<>>,
        collects |-> <<7>>, pushes |-> <<>>, src |-> "b", varies |-> FALSE],
       [type |-> "VariableDeclaration", parentNode |-> 0, childNodes |-> <<7>>,
        collects |-> <<>>, pushes |-> <<>>, src |-> "var b = 1;", varies |-> FALSE],
       [type |-> "VariableDeclarator", parentNode |-> 6, childNodes |-> <<8, 9>>,
        collects |-> <<17>>, pushes |-> <<>>, src |-> "b = 1", varies |-> FALSE],
       [type |-> "Identifier", parentNode |-> 7, childNodes |-> <<>>,
        collects |-> <<>>, pushes |-> <<>>, src |-> "b", varies |-> FALSE],
       [type |-> "Literal", parentNode |-> 7, childNodes |-> <<>>,
        collects |-> <<>>, pushes |-> <<>>, src |-> "1", varies |-> FALSE],
       [type |-> "ExpressionStatement", parentNode |-> 0, childNodes |-> <<11>>,
        collects |-> <<1>>, pushes |-> <<>>, src |-> "a();", varies |-> FALSE],
       [type |-> "CallExpression", parentNode |-> 10, childNodes |-> <<12>>,
        collects |-> <<1>>, pushes |-> <<>>, src |-> "a()", varies |-> FALSE],
       [type |-> "Identifier", parentNode |-> 11, childNodes |-> <<>>,
        collects |-> <<1>>, pushes |-> <<>>, src |-> "a", varies |-> FALSE],
       [type |-> "ExpressionStatement", parentNode |-> 0, childNodes |-> <<14>>,
        collects |-> <<1>>, pushes |-> <<>>, src |-> "a();", varies |-> FALSE],
       [type |-> "CallExpression", parentNode |-> 13, childNodes |-> <<15>>,
        collects |-> <<1>>, pushes |-> <<>>, src |-> "a()", varies |-> FALSE],
       [type |-> "Identifier", parentNode |-> 14, childNodes |-> <<>>,
        collects |-> <<1>>, pushes |-> <<>>, src |-> "a", varies |-> FALSE],
       [type |-> "ExpressionStatement", parentNode |-> 0, childNodes |-> <<17>>,
        collects |-> <<>>, pushes |-> <<>>, src |-> "b = c;", varies |-> TRUE],
       [type |-> "AssignmentExpression", parentNode |-> 16, childNodes |-> <<18, 19>>,
        collects |-> <<>>, pushes |-> <<19>>, src |-> "b = c", varies |-> TRUE],
       [type |-> "Identifier", parentNode |-> 17, childNodes |-> <<>>,
        collects |-> <<7>>, pushes |-> <<>>, src |-> "b", varies |-> FALSE],
       [type |-> "Literal", parentNode |-> 17, childNodes |-> <<>>,
        collects |-> <<>>, pushes |-> <<>>, src |-> "c", varies |-> TRUE] >>

NodeIds == 0..(Len(ScriptNodes) - 1)
ScriptNode(id) == ScriptNodes[id + 1]

\* originNode.scriptHash of the scripts of the model
ScriptHashes == {"script-F", "script-G"}

\* node.src in the script with the given hash
SrcOf(scriptHash, id) ==
    <<ScriptNode(id).src, IF ScriptNode(id).varies THEN scriptHash ELSE "">>

\* generateScriptHash(src): one hash per text
generateScriptHash(src) == [hashOf |-> src]

RECURSIVE Descendants(_)
\* the nodes below a node
Descendants(id) ==
    LET kids == {ScriptNode(id).childNodes[k] : k \in 1..Len(ScriptNode(id).childNodes)}
    IN kids \cup UNION {Descendants(c) : c \in kids}

\* node.range, in units of nodeIds: a node spans itself and what is below it
NodeRange(id) == <<id, id + Cardinality(Descendants(id))>>

\* isNodeMarked(node): the node or one of its ancestors is marked
isNodeMarked(id, marked) ==
    id \in marked \/ \E a \in marked : id \in Descendants(a)

skipCollectionTypes == {"Literal", "Identifier", "MemberExpression"}

\* the keys of a context in the bucket of a script
cacheNameId(nodeId, srcHash) == [key |-> "context-id-hash", nodeId |-> nodeId, srcHash |-> srcHash]
cacheNameSrc(srcHash) == [key |-> "context-hash", nodeId |-> -1, srcHash |-> srcHash]

\* the origin nodes of the calls, and the nodes that get marked
Origins == {1, 11, 14}
Markable == {1, 6}

SrcHashes == {generateScriptHash(SrcOf(h, o)) : h \in ScriptHashes, o \in Origins}
CacheKeys ==
    {cacheNameId(o, sh) : o \in Origins, sh \in SrcHashes} \cup {cacheNameSrc(sh) : sh \in SrcHashes}

\* no entry under a key; the entries are stamped with a generation above 0
NoContext == [context |-> <<>>, generation |-> 0]

RECURSIVE PushAll(_, _)
\* examineStack.push for each node of a list
PushAll(stack, ids) == IF ids = <<>> THEN stack ELSE PushAll(Append(stack, Head(ids)), Tail(ids))

RECURSIVE collectContext(_, _)
\* for (const rn of contextToCollect) {...}
collectContext(st, contextToCollect) ==
    IF contextToCollect = <<>> THEN st
    ELSE LET rn == Head(contextToCollect) IN
         IF /\ \A k \in 1..Len(st.collectedContextIds) : st.collectedContextIds[k] # rn
            /\ ~isNodeInRanges(NodeRange(rn), st.collectedRanges)
         THEN collectContext(
                  [st EXCEPT !.collectedRanges = Append(@, NodeRange(rn)),
                             !.collectedContextIds = Append(@, rn),
                             !.collectedContext = Append(@, rn),
                             !.examineStack = PushAll(Append(@, rn), ScriptNode(rn).childNodes)],
                  Tail(contextToCollect))
         ELSE collectContext(st, Tail(contextToCollect))

\* a reference link that the scope analysis of another script of the same
\* shape would add to the links of ScriptNodes; NoExtra adds none
NoExtra == [from |-> -1, to |-> -1]

\* contextToCollect of a relevant node (the Set drops a repeated node)
contextToCollect(relevantNode, extra) ==
    LET own == ScriptNode(relevantNode).collects IN
    IF extra.from = relevantNode /\ \A k \in 1..Len(own) : own[k] # extra.to
    THEN Append(own, extra.to)
    ELSE own

\* mutant: a node that was examined before is examined again
examineStep_noExaminedCheck(st, marked, extra) ==
    LET relevantNode == st.examineStack[Len(st.examineStack)]
        popped == [st EXCEPT !.examineStack = SubSeq(@, 1, Len(@) - 1)]
        seen == [popped EXCEPT !.examinedIds = @ \cup {relevantNode}]
    IN IF isNodeMarked(relevantNode, marked) THEN seen
       ELSE collectContext(
                [seen EXCEPT
                    !.collectedContextIds = Append(@, relevantNode),
                    !.collectedRanges = Append(@, NodeRange(relevantNode)),
                    !.examineStack = PushAll(@, ScriptNode(relevantNode).pushes)],
                contextToCollect(relevantNode, extra))

\* one iteration of while (examineStack.length) {...}
examineStep(st, marked, extra) ==
    LET relevantNode == st.examineStack[Len(st.examineStack)]
        popped == [st EXCEPT !.examineStack = SubSeq(@, 1, Len(@) - 1)]
    IN IF relevantNode \in st.examinedIds THEN popped
       ELSE LET seen == [popped EXCEPT !.examinedIds = @ \cup {relevantNode}] IN
            IF isNodeMarked(relevantNode, marked) THEN seen
            ELSE collectContext(
                     [seen EXCEPT
                         !.collectedContextIds = Append(@, relevantNode),
                         !.collectedRanges = Append(@, NodeRange(relevantNode)),
                         !.examineStack = PushAll(@, ScriptNode(relevantNode).pushes)],
                     contextToCollect(relevantNode, extra))

RECURSIVE examine(_, _)
\* while (examineStack.length) {...}
examine(st, marked) ==
    IF st.examineStack = <<>> THEN st
    ELSE examine(examineStep(st, marked, NoExtra), marked)

\* const collectedContext = [originNode]; ... const examinedIds = [];
startOfCollection(originNode) ==
    [collectedContext |-> <<originNode>>,
     examineStack |-> <<originNode>>,
     collectedContextIds |-> <<>>,
     collectedRanges |-> <<>>,
     examinedIds |-> {}]

\* cached = collectedContext.filter(n => !skipCollectionTypes.includes(n.type))
filterContext(collectedContext) ==
    SelectSeq(collectedContext, LAMBDA n : ScriptNode(n).type \notin skipCollectionTypes)

\* the body of if (!cached) up to the filter: the context collected for an origin
collect(originNode, marked) ==
    filterContext(examine(startOfCollection(originNode), marked).collectedContext)

\* mutant: the context is stored under the key of the node only
storeContext_nodeKeyOnly(bucket, nodeId, srcHash, cached) ==
    [bucket EXCEPT ![cacheNameId(nodeId, srcHash)] = cached]

\* cache[scriptHash][cacheNameId] = cached; cache[scriptHash][cacheNameSrc] = cached
storeContext(bucket, nodeId, srcHash, cached) ==
    [bucket EXCEPT ![cacheNameId(nodeId, srcHash)] = cached,
                   ![cacheNameSrc(srcHash)] = cached]

\* getDeclarationWithContext(originNode): the cache after the call, what the
\* call returns and whether it ran the collection; generation stamps a new entry
getDeclarationWithContext(contexts, originNode, scriptHash, marked, generation) ==
    LET srcHash == generateScriptHash(SrcOf(scriptHash, originNode))
        byId == contexts[scriptHash][cacheNameId(originNode, srcHash)]
        bySrc == contexts[scriptHash][cacheNameSrc(srcHash)]
        found == IF byId # NoContext THEN byId ELSE bySrc
    IN IF found # NoContext
       THEN [cache |-> contexts, cached |-> found, ran |-> FALSE]
       ELSE LET cached == [context |-> collect(originNode, marked),
                           generation |-> generation]
            IN [cache |-> [contexts EXCEPT ![scriptHash] =
                               storeContext(@, originNode, srcHash, cached)],
                cached |-> cached,
                ran |-> TRUE]

InitContext ==
    /\ ctxCache = [h \in ScriptHashes |-> [k \in CacheKeys |-> NoContext]]
    /\ ctxScriptHash \in ScriptHashes
    /\ ctxLastHash = ""
    /\ ctxGeneration = 0
    /\ ctxMarked = {}
    /\ ctxOrigin = 0
    /\ ctxResult = [context |-> <<>>, generation |-> 0, ran |-> FALSE]
    /\ ctxRuns = [h \in ScriptHashes, sh \in SrcHashes |-> {}]
    /\ ctxLookups = 0
    /\ ctxEntryTree = [h \in ScriptHashes |-> [k \in CacheKeys |-> "none"]]
    /\ ctxResultTree = "none"
    /\ ctxPc = "ready"

IdleContext ==
    /\ ctxCache = [h \in ScriptHashes |-> [k \in CacheKeys |-> NoContext]]
    /\ ctxScriptHash = "script-F"
    /\ ctxLastHash = ""
    /\ ctxGeneration = 0
    /\ ctxMarked = {}
    /\ ctxOrigin = 0
    /\ ctxResult = [context |-> <<>>, generation |-> 0, ran |-> FALSE]
    /\ ctxRuns = [h \in ScriptHashes, sh \in SrcHashes |-> {}]
    /\ ctxLookups = 0
    /\ ctxEntryTree = [h \in ScriptHashes |-> [k \in CacheKeys |-> "none"]]
    /\ ctxResultTree = "none"
    /\ ctxPc = "idle"

\* getDeclarationWithContext(originNode)
GetDeclarationWithContext ==
    /\ ctxPc \in {"ready", "returned"}
    /\ ctxLookups < MaxLookups
    /\ ctxLookups' = ctxLookups + 1
    /\ \E originNode \in Origins :
          LET generation == IF ctxScriptHash # ctxLastHash THEN ctxGeneration + 1
                            ELSE ctxGeneration
              out == getDeclarationWithContext(ctxCache, originNode, ctxScriptHash,
                                               ctxMarked, generation)
              srcHash == generateScriptHash(SrcOf(ctxScriptHash, originNode))
          IN /\ ctxCache' = out.cache
             /\ ctxResult' = [context |-> out.cached.context,
                              generation |-> out.cached.generation,
                              ran |-> out.ran]
             /\ ctxOrigin' = originNode
             /\ ctxGeneration' = generation
             /\ ctxRuns' = IF out.ran
                           THEN [ctxRuns EXCEPT ![ctxScriptHash, srcHash] = @ \cup {originNode}]
                           ELSE ctxRuns
             /\ ctxEntryTree' =
                    IF out.ran
                    THEN [ctxEntryTree EXCEPT
                             ![ctxScriptHash][cacheNameId(originNode, srcHash)] = "current",
                             ![ctxScriptHash][cacheNameSrc(srcHash)] = "current"]
                    ELSE ctxEntryTree
             /\ ctxResultTree' =
                    IF out.ran THEN "current"
                    ELSE IF ctxCache[ctxScriptHash][cacheNameId(originNode, srcHash)] # NoContext
                    THEN ctxEntryTree[ctxScriptHash][cacheNameId(originNode, srcHash)]
                    ELSE ctxEntryTree[ctxScriptHash][cacheNameSrc(srcHash)]
    /\ ctxLastHash' = ctxScriptHash
    /\ ctxPc' = "returned"
    /\ UNCHANGED <<ctxScriptHash, ctxMarked, cacheVars, engineVars, litVars, sbVars,
                   rlcVars, cliVars, notVars, laterVars>>

\* arb.markNode(node): a node is marked for replacement or removal
MarkNode ==
    /\ ctxPc \in {"ready", "returned"}
    /\ \E n \in Markable \ ctxMarked : ctxMarked' = ctxMarked \cup {n}
    /\ ctxPc' = "ready"
    /\ UNCHANGED <<ctxCache, ctxScriptHash, ctxLastHash, ctxGeneration, ctxOrigin,
                   ctxResult, ctxRuns, ctxLookups, ctxEntryTree, ctxResultTree, cacheVars,
                   engineVars, litVars, sbVars, rlcVars, cliVars, notVars, laterVars>>

\* the marks are committed: applyChanges builds a new tree, whose nodes belong
\* to a script with another hash
ScriptChanges ==
    /\ ctxPc \in {"ready", "returned"}
    /\ ctxScriptHash' \in ScriptHashes \ {ctxScriptHash}
    /\ ctxMarked' = {}
    /\ ctxEntryTree' = [h \in ScriptHashes |-> [k \in CacheKeys |->
                            IF ctxEntryTree[h][k] = "none" THEN "none" ELSE "earlier"]]
    /\ ctxResultTree' = IF ctxResultTree = "none" THEN "none" ELSE "earlier"
    /\ ctxPc' = "ready"
    /\ UNCHANGED <<ctxCache, ctxLastHash, ctxGeneration, ctxOrigin, ctxResult, ctxRuns,
                   ctxLookups, cacheVars, engineVars, litVars, sbVars, rlcVars, cliVars,
                   notVars, laterVars>>

NextContext == GetDeclarationWithContext \/ MarkNode \/ ScriptChanges

(***************************************************************************)
(* The work-stack loop of getDeclarationWithContext, one iteration at a    *)
(* time, for every origin node and every extra reference link.             *)
(***************************************************************************)
\* the reference links a script of the shape of ScriptNodes may have on top
ExtraLinks == {NoExtra} \cup {[from |-> f, to |-> t] : f \in NodeIds, t \in NodeIds}

InitCollect ==
    /\ colOrigin \in NodeIds
    /\ colMarked \in SUBSET Markable
    /\ colExtra \in ExtraLinks
    /\ colSt = startOfCollection(colOrigin)
    /\ colLog = <<[ev |-> "collected", id |-> colOrigin]>>
    /\ colPushes = 0
    /\ colResult = <<>>
    /\ colPc = "loop"

IdleCollect ==
    /\ colOrigin = 0
    /\ colMarked = {}
    /\ colExtra = NoExtra
    /\ colSt = startOfCollection(0)
    /\ colLog = <<>>
    /\ colPushes = 0
    /\ colResult = <<>>
    /\ colPc = "idle"

\* one iteration of the loop: pop, examine, collect; the log takes the node as
\* examined when the iteration did more than pop it
ExamineStep ==
    /\ colPc = "loop"
    /\ colSt.examineStack # <<>>
    /\ \E next \in {examineStep(colSt, colMarked, colExtra)} :
          LET relevantNode == colSt.examineStack[Len(colSt.examineStack)]
              added == SubSeq(next.collectedContext, Len(colSt.collectedContext) + 1,
                              Len(next.collectedContext))
          IN /\ colSt' = next
             /\ colLog' = colLog
                    \o (IF next = [colSt EXCEPT !.examineStack = SubSeq(@, 1, Len(@) - 1)]
                        THEN <<>>
                        ELSE <<[ev |-> "examined", id |-> relevantNode]>>)
                    \o [k \in 1..Len(added) |-> [ev |-> "collected", id |-> added[k]]]
             /\ colPushes' = colPushes + Len(next.examineStack) - (Len(colSt.examineStack) - 1)
    /\ UNCHANGED <<colOrigin, colMarked, colExtra, colResult, colPc, cacheVars, engineVars,
                   earlierVars, lastVars>>

\* the loop is over: the collected context is filtered and returned
ReturnContext ==
    /\ colPc = "loop"
    /\ colSt.examineStack = <<>>
    /\ colResult' = filterContext(colSt.collectedContext)
    /\ colPc' = "returned"
    /\ UNCHANGED <<colOrigin, colMarked, colExtra, colSt, colLog, colPushes, cacheVars,
                   engineVars, earlierVars, lastVars>>

NextCollect == ExamineStep \/ ReturnContext

(***************************************************************************)
(* resolveDefiniteBinaryExpressions on numeric literals: a script of one  *)
(* statement, left operator right, is matched and folded.  Numbers are    *)
(* counted in halves, so the operands are 0, 0.5, 1, ... MaxOperand.      *)
(***************************************************************************)
\* the largest operand of the folded expressions
MaxOperand == 3

FoldOperators == {"+", "-"}

FoldScripts ==
    { Program(<<ExpressionStatement(
          BinaryExpression(op, Literal(Num(l)), Literal(Num(r))))>>) :
      op \in FoldOperators, l \in 0..(2 * MaxOperand), r \in 0..(2 * MaxOperand) }

InitFold ==
    /\ foldScript \in FoldScripts
    /\ foldMarks = NoMarks
    /\ foldPc = "start"

IdleFold ==
    /\ foldScript = Program(<<>>)
    /\ foldMarks = NoMarks
    /\ foldPc = "idle"

\* resolveDefiniteBinaryExpressionsTransform(arb,
\*     resolveDefiniteBinaryExpressionsMatch(arb, candidateFilter))
ResolveDefiniteBinaryExpressions ==
    /\ foldPc = "start"
    /\ \E flat \in {generateFlatAST(foldScript)} :
          foldMarks' = resolveDefiniteBinaryExpressionsLoop(NoMarks, flat,
                           resolveDefiniteBinaryExpressionsMatch(flat, "acceptAll"))
    /\ foldPc' = "folded"
    /\ UNCHANGED <<foldScript, cacheVars, engineVars, earlierVars, colVars, itrVars, ncVars, cosVars>>

NextFold == ResolveDefiniteBinaryExpressions

(***************************************************************************)
(* The default iteration counter.  DEFAULT_MAX_ITERATIONS is one object of *)
(* the module; a job that is given no maxIterations runs its loop on that  *)
(* object, and every numeric use of it in the loop condition calls valueOf.*)
(***************************************************************************)
\* how many jobs the process runs
MaxJobs == 5

\* the value the counter is defined with (500 in the code)
DefaultBudget == 5

InitCounter ==
    /\ itrValue = DefaultBudget
    /\ itrStarts = <<>>
    /\ itrReads = <<>>
    /\ itrPc = "between"

IdleCounter ==
    /\ itrValue = DefaultBudget
    /\ itrStarts = <<>>
    /\ itrReads = <<>>
    /\ itrPc = "idle"

\* a job begins with the default: its maxIterations is DEFAULT_MAX_ITERATIONS
StartJob ==
    /\ itrPc = "between"
    /\ Len(itrStarts) < MaxJobs
    /\ itrStarts' = Append(itrStarts, itrValue)
    /\ itrReads' = <<>>
    /\ itrPc' = "running"
    /\ UNCHANGED <<itrValue, cacheVars, engineVars, earlierVars, colVars, foldVars, ncVars, cosVars>>

\* the loop condition of the running job uses the counter as a number; the job
\* goes on while what it read is positive
NumericUse ==
    /\ itrPc = "running"
    /\ \E r \in {valueOf(itrValue)} :
          /\ itrValue' = r.value
          /\ itrReads' = Append(itrReads, r.returned)
          /\ itrPc' = IF r.returned > 0 THEN "running" ELSE "between"
    /\ UNCHANGED <<itrStarts, cacheVars, engineVars, earlierVars, colVars, foldVars, ncVars, cosVars>>

\* the running job ends because an iteration made no progress
JobEnds ==
    /\ itrPc = "running"
    /\ itrReads # <<>>
    /\ itrPc' = "between"
    /\ UNCHANGED <<itrValue, itrStarts, itrReads, cacheVars, engineVars, earlierVars,
                   colVars, foldVars, ncVars, cosVars>>

NextCounter == StartJob \/ NumericUse \/ JobEnds

(***************************************************************************)
(* normalizeComputed, run and committed repeatedly on one script of one    *)
(* statement: a member access, a member access of a member access, an      *)
(* object with one property or a class with one method.                    *)
(***************************************************************************)
\* how many times the pass is run on a script
MaxRuns == 2

\* what stands between the brackets, or after the dot
NcKeys ==
    { Literal(Str(<<"b">>)), Literal(Str(<<"b", "3">>)), Literal(Str(<<"3", "b">>)),
      Literal(Str(<<"b", "!">>)), Literal(Str(<<"$">>)), Literal(Str(<<>>)),
      Literal(Bool(TRUE)), Literal(Num(4)), Identifier(<<"b">>) }

\* object[key] for every key, object.key for a name
NcMembers(objects) ==
    { MemberExpression(o, k, TRUE) : o \in objects, k \in NcKeys }
    \cup { MemberExpression(o, Identifier(<<"b">>), FALSE) : o \in objects }

NcExpressions ==
    NcMembers({Identifier(<<"a">>)})
    \cup NcMembers(NcMembers({Identifier(<<"a">>)}))
    \cup { ObjectExpression(<<KeyedProperty(k, Literal(Num(2)), c)>>)
             : k \in NcKeys, c \in BOOLEAN }
    \cup { ClassExpression(<<MethodDefinition(k, c)>>) : k \in NcKeys, c \in BOOLEAN }

NcScripts == { Program(<<ExpressionStatement(e)>>) : e \in NcExpressions }

InitNc ==
    /\ ncScript \in NcScripts
    /\ ncFilter \in Filters
    /\ ncMarks = NoMarks
    /\ ncMatched = <<>>
    /\ ncPc = "run"

IdleNc ==
    /\ ncScript = Program(<<>>)
    /\ ncFilter = "acceptAll"
    /\ ncMarks = NoMarks
    /\ ncMatched = <<>>
    /\ ncPc = "idle"

\* normalizeComputed(arb, candidateFilter): match, then transform each match
NormalizeComputed ==
    /\ ncPc = "run"
    /\ \E flat \in {generateFlatAST(ncScript)} :
          /\ ncMatched' = Append(ncMatched, normalizeComputedMatch(flat, ncFilter))
          /\ ncMarks' = MatchThenTransform("normalizeComputed", flat, ncFilter)
    /\ ncPc' = "commit"
    /\ UNCHANGED <<ncScript, ncFilter, cacheVars, engineVars, earlierVars, colVars,
                   foldVars, itrVars, cosVars>>

\* arb.applyChanges(): the marks are committed and the script printed anew
NcApplyChanges ==
    /\ ncPc = "commit"
    /\ ncScript' = IF ncMarks = NoMarks THEN ncScript
                   ELSE generateCode(generateFlatAST(ncScript), ncMarks, 0)
    /\ ncMarks' = NoMarks
    /\ ncPc' = IF Len(ncMatched) < MaxRuns THEN "run" ELSE "done"
    /\ UNCHANGED <<ncFilter, ncMatched, cacheVars, engineVars, earlierVars, colVars,
                   foldVars, itrVars, cosVars>>

NextNc == NormalizeComputed \/ NcApplyChanges

(***************************************************************************)
(* createOrderedSrc(nodes, preserveOrder) on call expressions of the        *)
(* script (function(a){})(); a(); (function(b){})(); b();                   *)
(***************************************************************************)
\* the longest list handed to createOrderedSrc
MaxInput == 4

CosScript ==
    Program(<< ExpressionStatement(
                   CallExpression(FunctionExpression(<<Identifier(<<"a">>)>>), <<>>)),
               ExpressionStatement(CallExpression(Identifier(<<"a">>), <<>>)),
               ExpressionStatement(
                   CallExpression(FunctionExpression(<<Identifier(<<"b">>)>>), <<>>)),
               ExpressionStatement(CallExpression(Identifier(<<"b">>), <<>>)) >>)

CosAst == generateFlatAST(CosScript)

\* the nodes a caller hands over: the calls of the script
CosTargets == { typeMap(CosAst, "CallExpression")[k]
                : k \in 1..Len(typeMap(CosAst, "CallExpression")) }

\* an immediately-invoked function expression
IsIIFE(n) == n.type = "CallExpression" /\ n.src.kids[1].type = "FunctionExpression"

\* the position an IIFE is moved to: behind every node of the script
AfterTheScript(pos) == pos + Len(CosAst)

\* mutant: a node that was taken before is taken again
addParsedNode_noDedupe(parsed, id, preserveOrder) ==
    LET n == NodeAt(CosAst, id)
        piece == IF n.type = "CallExpression"
                    /\ NodeAt(CosAst, n.parentId).type = "ExpressionStatement"
                 THEN NodeAt(CosAst, n.parentId)
                 ELSE n
    IN Append(parsed,
              [nodeId |-> id,
               position |-> IF IsIIFE(n) /\ ~preserveOrder
                            THEN AfterTheScript(piece.nodeId) ELSE piece.nodeId,
               src |-> piece.src])

\* one node of the list: a node seen before is skipped; a call that is an
\* expression statement is taken with its statement; an IIFE is moved behind
\* the other nodes unless the order is to be preserved
addParsedNode(parsed, id, preserveOrder) ==
    IF \E k \in 1..Len(parsed) : parsed[k].nodeId = id THEN parsed
    ELSE LET n == NodeAt(CosAst, id)
             piece == IF n.type = "CallExpression"
                         /\ NodeAt(CosAst, n.parentId).type = "ExpressionStatement"
                      THEN NodeAt(CosAst, n.parentId)
                      ELSE n
         IN Append(parsed,
                   [nodeId |-> id,
                    position |-> IF IsIIFE(n) /\ ~preserveOrder
                                 THEN AfterTheScript(piece.nodeId) ELSE piece.nodeId,
                    src |-> piece.src])

RECURSIVE InsertByPosition(_, _)
\* a sorted list with one more node, behind the nodes that are not after it
InsertByPosition(sorted, x) ==
    IF sorted = <<>> THEN <<x>>
    ELSE IF x.position < Head(sorted).position THEN <<x>> \o sorted
    ELSE <<Head(sorted)>> \o InsertByPosition(Tail(sorted), x)

RECURSIVE sortByNodeId(_)
\* parsedNodes.sort by position
sortByNodeId(parsed) ==
    IF parsed = <<>> THEN <<>>
    ELSE InsertByPosition(sortByNodeId(SubSeq(parsed, 1, Len(parsed) - 1)),
                          parsed[Len(parsed)])

\* the string: the source of each node followed by a newline
joinPieces(sorted) ==
    [k \in 1..Len(sorted) |->
        [nodeId |-> sorted[k].nodeId, src |-> sorted[k].src, end |-> "\n"]]

RECURSIVE Tuples(_, _)
\* the lists of up to n elements of a set
Tuples(S, n) ==
    IF n = 0 THEN {<<>>}
    ELSE Tuples(S, n - 1)
         \cup {Append(t, x) : t \in {u \in Tuples(S, n - 1) : Len(u) = n - 1}, x \in S}

InitOrderedSrc ==
    /\ cosNodes \in Tuples(CosTargets, MaxInput)
    /\ cosPreserve \in BOOLEAN
    /\ cosI = 0
    /\ cosParsed = <<>>
    /\ cosOutput = <<>>
    /\ cosPc = "loop"

IdleOrderedSrc ==
    /\ cosNodes = <<>>
    /\ cosPreserve = FALSE
    /\ cosI = 0
    /\ cosParsed = <<>>
    /\ cosOutput = <<>>
    /\ cosPc = "idle"

\* the loop over the list, one node at a time
TakeNode ==
    /\ cosPc = "loop"
    /\ cosI < Len(cosNodes)
    /\ cosParsed' = addParsedNode(cosParsed, cosNodes[cosI + 1], cosPreserve)
    /\ cosI' = cosI + 1
    /\ UNCHANGED <<cosNodes, cosPreserve, cosOutput, cosPc, cacheVars, engineVars, earlierVars,
                   colVars, foldVars, itrVars, ncVars>>

\* the list is through: the nodes taken are sorted and printed
ReturnOrderedSrc ==
    /\ cosPc = "loop"
    /\ cosI = Len(cosNodes)
    /\ cosOutput' = joinPieces(sortByNodeId(cosParsed))
    /\ cosPc' = "returned"
    /\ UNCHANGED <<cosNodes, cosPreserve, cosI, cosParsed, cacheVars, engineVars, earlierVars,
                   colVars, foldVars, itrVars, ncVars>>

NextOrderedSrc == TakeNode \/ ReturnOrderedSrc

IdleLast == IdleFold /\ IdleCounter /\ IdleNc /\ IdleOrderedSrc

IdleLater == IdleCollect /\ IdleLast

IdleUtil ==
    IdleLit /\ IdleSandbox /\ IdleLocalCalls /\ IdleArgs /\ IdleNot /\ IdleContext /\ IdleLater

InitCacheOnly == InitCache /\ IdleEngine /\ IdleUtil
InitEngine == InitCache /\ InitJob(FALSE) /\ IdleUtil
InitEngineFaulty == InitCache /\ InitJob(TRUE) /\ IdleUtil
InitLitOnly ==
    InitCache /\ IdleEngine /\ InitLit /\ IdleSandbox /\ IdleLocalCalls
    /\ IdleArgs /\ IdleNot /\ IdleContext /\ IdleLater
InitSandboxOnly ==
    InitCache /\ IdleEngine /\ IdleLit /\ InitSandbox /\ IdleLocalCalls
    /\ IdleArgs /\ IdleNot /\ IdleContext /\ IdleLater
InitLocalCallsOnly ==
    InitCache /\ IdleEngine /\ IdleLit /\ IdleSandbox /\ InitLocalCalls
    /\ IdleArgs /\ IdleNot /\ IdleContext /\ IdleLater
InitArgsOnly ==
    InitCache /\ IdleEngine /\ IdleLit /\ IdleSandbox /\ IdleLocalCalls
    /\ InitArgs /\ IdleNot /\ IdleContext /\ IdleLater
InitNotOnly ==
    InitCache /\ IdleEngine /\ IdleLit /\ IdleSandbox /\ IdleLocalCalls
    /\ IdleArgs /\ InitNot /\ IdleContext /\ IdleLater
InitContextOnly ==
    InitCache /\ IdleEngine /\ IdleLit /\ IdleSandbox /\ IdleLocalCalls
    /\ IdleArgs /\ IdleNot /\ InitContext /\ IdleLater
InitCollectOnly ==
    InitCache /\ IdleEngine /\ IdleLit /\ IdleSandbox /\ IdleLocalCalls
    /\ IdleArgs /\ IdleNot /\ IdleContext /\ InitCollect /\ IdleLast

InitEarlierIdle ==
    InitCache /\ IdleEngine /\ IdleLit /\ IdleSandbox /\ IdleLocalCalls
    /\ IdleArgs /\ IdleNot /\ IdleContext /\ IdleCollect

InitFoldOnly == InitEarlierIdle /\ InitFold /\ IdleCounter /\ IdleNc /\ IdleOrderedSrc
InitCounterOnly == InitEarlierIdle /\ IdleFold /\ InitCounter /\ IdleNc /\ IdleOrderedSrc
InitNcOnly == InitEarlierIdle /\ IdleFold /\ IdleCounter /\ InitNc /\ IdleOrderedSrc
InitOrderedSrcOnly == InitEarlierIdle /\ IdleFold /\ IdleCounter /\ IdleNc /\ InitOrderedSrc

\* the cache on its own, under arbitrary callers
SpecCache == InitCacheOnly /\ [][NextCache]_vars

\* a job of the orchestrator in which nothing outside the passes fails
SpecEngine == InitEngine /\ [][NextEngine]_vars

\* the same job, run to its end
SpecEngineFair == InitEngine /\ [][NextEngine]_vars /\ WF_vars(NextEngine)

\* a job in which staging a mark may throw and a committed source may not parse
SpecEngineFaulty == InitEngineFaulty /\ [][NextEngine]_vars

\* literalisation of every finite primitive, then its re-evaluation
SpecLit == InitLitOnly /\ [][NextLit]_vars

\* repeated calls of evalInVm, with purges of the cache in between
SpecSandbox == InitSandboxOnly /\ [][NextSandbox]_vars

\* one run of resolveLocalCalls on every script of the model
SpecLocalCalls == InitLocalCallsOnly /\ [][NextLocalCalls]_vars

\* every command line of the model parsed and validated
SpecArgs == InitArgsOnly /\ [][NextArgs]_vars

\* normalizeRedundantNotOperator run on every chain of NOT operators of the model
SpecNot == InitNotOnly /\ [][NextNot]_vars

\* calls of getDeclarationWithContext between marks and changes of the script
SpecContext == InitContextOnly /\ [][NextContext]_vars

\* the loop of getDeclarationWithContext for every origin, mark and extra link
SpecCollect == InitCollectOnly /\ [][NextCollect]_vars

\* the same loop, run to its end
SpecCollectFair == InitCollectOnly /\ [][NextCollect]_vars /\ WF_vars(NextCollect)

\* resolveDefiniteBinaryExpressions on its own, on two numeric literals
SpecFold == InitFoldOnly /\ [][NextFold]_vars

\* the jobs of one process on the default iteration counter
SpecCounter == InitCounterOnly /\ [][NextCounter]_vars

\* normalizeComputed on its own, run and committed MaxRuns times
SpecNormalizeComputed == InitNcOnly /\ [][NextNc]_vars

\* createOrderedSrc on its own, on every list of up to MaxInput calls
SpecOrderedSrc == InitOrderedSrcOnly /\ [][NextOrderedSrc]_vars

(***************************************************************************)
(* Properties.                                                             *)
(***************************************************************************)
\* C1: two getCache(F) calls for the same fingerprint F, with no call for another
\* fingerprint and no flush in between, return the same bucket instance with its
\* entries; a getCache call for a fingerprint other than the previous one returns
\* an empty bucket (the earlier bucket of that fingerprint was invalidated).
C1_SameInstanceOrInvalidated ==
    [][ (lastOp'.op = "get" /\ lastGetArg' \in Hashes) =>
          /\ (lastGetArg' = lastGetArg /\ ~flushedSince)
                => (ret' = ret /\ heap'[ret'] = heap[ret])
          /\ (lastGetArg' # lastGetArg) => heap'[ret'] = {} ]_vars

\* C1 witness: a repeated getCache(F) returned a bucket holding an entry, after
\* earlier fingerprint switches
C1_Witness ==
    /\ lastOp.op = "get"
    /\ lastGetArg \in Hashes
    /\ sameAsPrev
    /\ heap[ret] # {}
    /\ nextId > 2

\* C2: flush keeps the active fingerprint, and the getCache call that follows a
\* flush returns an empty bucket for the active fingerprint and for every other
\* real fingerprint.
C2_FlushEmptiesKeepsHash ==
    [][ /\ (lastOp'.op = "flush") => (relevantScriptHash' = relevantScriptHash)
        /\ (lastOp.op = "flush" /\ lastOp'.op = "get" /\ lastGetArg' \in Hashes)
              => (heap'[ret'] = {} /\ (lastGetArg' = lastGetArg => ret' = ret)) ]_vars

\* C2 witness: after several fingerprint switches and a flush, a getCache for the
\* fingerprint that was active at the flush returned its (now empty) bucket
C2_Witness ==
    /\ lastOp.op = "get"
    /\ flushedSince = FALSE
    /\ lastGetArg \in Hashes
    /\ nextId > 3
    /\ heap[ret] = {}
    /\ \E r \in 1..(nextId - 1) : heap[r] # {}

\* C3: every entry stored through the no-hash bucket is in the bucket that
\* getCache returns for a missing fingerprint (null, undefined, ''), whatever
\* getCache calls with real fingerprints came in between.
C3_NoHashNotInvalidated ==
    (lastOp.op = "get" /\ lastGetArg \in Missing) =>
        (ret = noHashCache /\ ret # 0 /\ noHashLog \subseteq heap[ret])

\* C3 witness: getCache(undefined) returned the stored entries after a real
\* fingerprint had been active in between
C3_Witness ==
    /\ lastOp.op = "get"
    /\ lastGetArg = "undefined"
    /\ noHashLog # {}
    /\ cache = 0
    /\ nextId > 2

(***************************************************************************)
(* The flat array's structure, as a reader of the tree sees it.            *)
(***************************************************************************)
RECURSIVE getDescendants(_, _)
\* getDescendants(targetNode): the nodes reached through child links
getDescendants(flat, id) ==
    LET kids == NodeAt(flat, id).childIds IN
    UNION { {kids[k]} \cup getDescendants(flat, kids[k]) : k \in 1..Len(kids) }

\* the substrate invariants: dense nodeIds from 0, parent and child links that
\* agree and run forward, and every node's descendants one contiguous id range
TreeOk(flat) ==
    /\ \A k \in 1..Len(flat) : flat[k].nodeId = k - 1
    /\ \A k \in 1..Len(flat) :
          LET n == flat[k] IN
          /\ n.parentId < n.nodeId
          /\ (n.parentId = -1) = (n.nodeId = 0)
          /\ \A c \in 1..Len(n.childIds) :
                /\ n.childIds[c] \in (n.nodeId + 1)..(Len(flat) - 1)
                /\ NodeAt(flat, n.childIds[c]).parentId = n.nodeId
                /\ c > 1 => n.childIds[c - 1] < n.childIds[c]
          /\ n.parentId >= 0 =>
                \E c \in 1..Len(NodeAt(flat, n.parentId).childIds) :
                    NodeAt(flat, n.parentId).childIds[c] = n.nodeId
          /\ LET d == getDescendants(flat, n.nodeId) IN
             d = (n.nodeId + 1)..(n.nodeId + Cardinality(d))
    /\ Len(flat) > 0 => Cardinality(getDescendants(flat, 0)) = Len(flat) - 1

\* the states in which no pass is running
BetweenPasses == pc \in {"guard", "match", "iterationEnd", "done"}

\* C4: the outer loop runs at most as many iterations as the counter allowed at
\* the start, never runs another iteration after one that changed nothing, ends
\* only when the counter read 0 or the last iteration changed nothing, and
\* always ends.
C4_LoopTerminates ==
    /\ [](iterations <= budget)
    /\ [](idle <= 1 /\ (idle = 1 => pc = "done"))
    /\ [](pc = "done" => (lastRead = 0 \/ script = snapshot))
    /\ <>(pc = "done")

\* C4 witness: the counter ended a job whose last iteration still changed the source
C4_Witness ==
    /\ pc = "done"
    /\ budget > 0
    /\ iterations = budget
    /\ lastRead = 0
    /\ script # snapshot

\* C5: a commit that fails to parse leaves the tree and its source as they were,
\* discards the staged marks and hands over to the next pass (or to the end of the
\* iteration after the last pass); and every staged mark was staged by the running
\* pass, so no commit applies a mark staged before a failure.
C5_FailedCommitKeepsSubstrate ==
    /\ [][ (pc = "commit" /\ lastCommit' = "failed") =>
             /\ script' = script
             /\ ast' = ast
             /\ marks' = NoMarks
             /\ pc' \in {"match", "iterationEnd"} ]_vars
    /\ [](marks # NoMarks =>
             /\ pc \in {"transform", "commit", "fatal"}
             /\ \A k \in DOMAIN marks : \E j \in 1..(i - 1) : matches[j] = k)

\* C5 witness: after a failed commit the next pass is staging marks of its own
C5_Witness ==
    /\ lastCommit = "failed"
    /\ pc = "transform"
    /\ marks # NoMarks
    /\ script = preScript

\* C6: after a successful applyChanges no mark is pending (until the next pass
\* stages one) and the new tree satisfies the substrate invariants.
C6_CommittedTreeInvariants ==
    lastCommit = "ok" =>
        /\ BetweenPasses => marks = NoMarks
        /\ TreeOk(ast)

\* C6 witness: a successful commit built a tree with an inner node that has
\* more than one descendant
C6_Witness ==
    /\ lastCommit = "ok"
    /\ pc = "match"
    /\ script # preScript
    /\ \E k \in 2..Len(ast) : Cardinality(getDescendants(ast, ast[k].nodeId)) > 2

\* C7 as stated: after a pass and its commit the source is unchanged if and only
\* if the pass's match function returned no candidates.
C7_UnchangedIffNoCandidates ==
    BetweenPasses => ((script = preScript) <=> (matches = <<>>))

\* C7 amended: a pass whose match function returned no candidates leaves the
\* source unchanged.
C7_NoCandidatesNoChange ==
    BetweenPasses => (matches = <<>> => script = preScript)

\* C7 witness: an unsafe pass ran to its commit on a tree that holds nodes of its
\* kind, its match function having returned none
C7_Witness ==
    /\ pc = "iterationEnd"
    /\ matches = <<>>
    /\ lastCommit = "nothing"
    /\ typeMap(ast, "BinaryExpression") # <<>>

C9_StagingErrorsSwallowed == pc # "fatal"

\* C10 as stated: when the default entry point of a pass returns, the marks it
\* staged are those of passMatch followed by passTransform on each returned
\* node, in order.
C10_DefaultIsMatchThenTransform ==
    pc = "commit" => marks = MatchThenTransform(currentPass, ast, candidateFilter)
\* C11 as stated: evaluating the printed form of the node produced by
\* literalising a finite primitive yields the primitive again.
C11_LiteraliseRoundTrip ==
    litPc = "evaluated" => litResult = Ok(litValue)
C13_MarkedCalleeNotModified ==
    \A c \in rlcMarks :
        ~areReferencesModified(LocalDecls[rlcCalls[c].callee].references)

\* the space syntax and the equal syntax of a flag that takes a value
SpaceSyntax(flag, v) == <<InputFile, flag, v>>
EqualSyntax(flag, v) == <<InputFile, flag \o <<"=">> \o v>>
ValueFlags == FLAG_PATTERNS.output \cup FLAG_PATTERNS.maxIterations

\* C14 as stated: for the output flag and the max-iterations flag and every
\* non-empty value v, parseArgs([input, flag, v]) returns the same options as
\* parseArgs([input, flag + '=' + v]).
C14_EqualSyntaxSameAsSpaceSyntax ==
    \A flag \in ValueFlags, v \in ArgValues \ {<<>>} :
        (cliPc = "parsed" /\ cliArgs = SpaceSyntax(flag, v))
            => cliOpts = parseArgs(EqualSyntax(flag, v))

\* C14 amended: the same for every non-empty value that does not begin with a
\* dash and holds no line terminator.
C14_EqualSyntaxSameForPlainValues ==
    \A flag \in ValueFlags, v \in ArgValues \ {<<>>} :
        (/\ cliPc = "parsed"
         /\ cliArgs = SpaceSyntax(flag, v)
         /\ ~startsWith(v, <<"-">>)
         /\ \A k \in 1..Len(v) : v[k] \notin LineTerminators)
            => cliOpts = parseArgs(EqualSyntax(flag, v))

\* C14 witness: the space syntax of the output flag was parsed, the value taken
\* as the output filename as the equal syntax takes it
C14_Witness ==
    /\ cliPc = "parsed"
    /\ \E flag \in FLAG_PATTERNS.output, v \in ArgValues :
          /\ cliArgs = SpaceSyntax(flag, v)
          /\ cliOpts.outputToFile
          /\ cliOpts.outputFilename = v
          /\ parseArgs(EqualSyntax(flag, v)).outputFilename = v

\* what a command line asks for, read off the arguments themselves
HelpRequested(args) == \E k \in 1..Len(args) : test(FLAG_PATTERNS.help, args[k])
QuietSet(args) == \E k \in 1..Len(args) : test(FLAG_PATTERNS.quiet, args[k])
VerboseSet(args) == \E k \in 1..Len(args) : test(FLAG_PATTERNS.verbose, args[k])
InputPresent(args) ==
    Len(args) > 0 /\ args[1] # <<>> /\ ~startsWith(args[1], <<"-">>)
\* the positions of the max-iterations flags, and the value given at one:
\* the rest of the argument, or the following argument unless that is a flag
MaxIterationsFlags(args) ==
    {k \in 1..Len(args) :
        \/ test(FLAG_PATTERNS.maxIterations, args[k])
        \/ testWithValue(FLAG_PATTERNS.maxIterationsWithValue, args[k])}
MaxIterationsGiven(args, k) ==
    IF test(FLAG_PATTERNS.maxIterations, args[k])
    THEN (IF k < Len(args) /\ ~startsWith(args[k + 1], <<"-">>) THEN args[k + 1] ELSE <<>>)
    ELSE execValue(FLAG_PATTERNS.maxIterationsWithValue, args[k])
MissingOrInvalid(v) == v = <<>> \/ ~IsNumberAboveZero(v)

IsPositiveInteger(cs) ==
    /\ cs # <<>>
    /\ \A k \in 1..Len(cs) : cs[k] \in Digits
    /\ DigitsToNat(cs, 0) > 0

\* C16 as stated: the max-iterations option is accepted only with a positive
\* integer: for N it records the number N, and for every other value (0,
\* negative, non-numeric, fractional, infinite, missing) it records null and
\* argsAreValid returns false.
C16_OnlyPositiveIntegersAccepted ==
    \A flag \in FLAG_PATTERNS.maxIterations, v \in ArgValues :
        (cliPc = "validated"
         /\ cliArgs \in {SpaceSyntax(flag, v), EqualSyntax(flag, v), <<InputFile, flag>>})
            => IF IsPositiveInteger(v) /\ cliArgs # <<InputFile, flag>>
               THEN cliOpts.maxIterations = StringToNumber(v)
               ELSE cliOpts.maxIterations = Null /\ ~cliValid

\* C17: normalizeRedundantNotOperator marks a UnaryExpression only if its
\* operator is '!' and its argument is a Literal, ArrayExpression,
\* ObjectExpression or UnaryExpression that canUnaryExpressionBeResolved
\* accepts, never a '!' on an identifier, member, call, binary or logical
\* expression; every mark is the literalised boolean value of the marked
\* expression, and a chain of k NOTs on a boolean literal b gets b when k is
\* even and not-b when k is odd.
C17_OnlyReducibleNotsGetTheirBoolean ==
    notPc = "returned" =>
        \A id \in DOMAIN notMarks :
            LET n == NodeAt(notAst, id)
                argument == n.src.kids[1]
            IN /\ n.src.type = "UnaryExpression"
               /\ n.src.operator = "!"
               /\ argument.type \in
                      {"Literal", "ArrayExpression", "ObjectExpression", "UnaryExpression"}
               /\ canUnaryExpressionBeResolved(argument)
               /\ argument.type \notin
                      {"Identifier", "MemberExpression", "CallExpression",
                       "BinaryExpression", "LogicalExpression"}
               /\ Eval(argument).ok
               /\ notMarks[id] = Literal(Bool(~ToBoolean(Eval(argument).v)))
               /\ \A k \in 1..MaxNots, b \in BOOLEAN :
                     n.src = NotChain(k, Literal(Bool(b)))
                         => notMarks[id] = Literal(Bool(IF k % 2 = 0 THEN b ELSE ~b))

\* C17 witness: the longest chain of NOTs on true was marked with its value,
\* and so was every shorter chain inside it
C17_Witness ==
    /\ notPc = "returned"
    /\ Cardinality(DOMAIN notMarks) = MaxNots
    /\ \E id \in DOMAIN notMarks :
          /\ NodeAt(notAst, id).src = NotChain(MaxNots, Literal(Bool(TRUE)))
          /\ notMarks[id] = Literal(Bool(MaxNots % 2 = 0))

\* C18 as stated: once a context was computed under a script hash and a later
\* call ran under another one, no result stored before is returned again, also
\* when the script hash becomes the first one again: a call returns only what
\* was computed since the last call that ran under another hash.
C18_NoResultOfAnEarlierGeneration ==
    ctxPc = "returned" => ctxResult.generation = ctxGeneration

\* C19: each computed context is stored under the key of node id and content
\* hash and under the key of the content hash alone, so of the origin nodes of
\* one script with the same source text only the first is collected for, and a
\* call for another returns the result computed for the first.
C19_SameSourceSharesTheContext ==
    /\ \A h \in ScriptHashes, sh \in SrcHashes : Cardinality(ctxRuns[h, sh]) <= 1
    /\ ctxPc = "returned" =>
          LET srcHash == generateScriptHash(SrcOf(ctxScriptHash, ctxOrigin))
              stored == ctxCache[ctxScriptHash][cacheNameSrc(srcHash)]
          IN /\ stored # NoContext
             /\ ctxResult.context = stored.context
             /\ ctxResult.generation = stored.generation
             /\ \A first \in ctxRuns[ctxScriptHash, srcHash] :
                   /\ ctxCache[ctxScriptHash][cacheNameId(first, srcHash)] = stored
                   /\ first # ctxOrigin => ~ctxResult.ran

\* C19 witness: the second call a() got the context collected for the first
\* one without collecting again
C19_Witness ==
    /\ ctxPc = "returned"
    /\ ~ctxResult.ran
    /\ \E first \in Origins \ {ctxOrigin} :
          /\ ctxRuns[ctxScriptHash,
                     generateScriptHash(SrcOf(ctxScriptHash, ctxOrigin))] = {first}
          /\ ctxResult.context # <<>>
          /\ ctxResult.context[1] = first

\* C20 as stated: a node that is marked, itself or through a marked ancestor,
\* when getDeclarationWithContext runs is not included in the context the run
\* returns.
C20_NoMarkedNodeInContext ==
    (ctxPc = "returned" /\ ctxResult.ran) =>
        \A k \in 1..Len(ctxResult.context) :
            ~isNodeMarked(ctxResult.context[k], ctxMarked)

\* C21: during context collection a node is added to the collected context
\* only if its id was not collected before and its range is not inside a range
\* recorded before (of a collected or an examined node); so no node of the
\* context lies inside the range of a node collected or examined before it.
C21_CollectedOutsideEarlierRanges ==
    \A k \in 2..Len(colLog) :
        colLog[k].ev = "collected" =>
            \A j \in 1..(k - 1) :
                /\ colLog[j].id # colLog[k].id
                /\ ~isNodeInRanges(NodeRange(colLog[k].id), <<NodeRange(colLog[j].id)>>)

\* C21 witness: a call returned a context of several nodes after the loop had
\* turned down a node of contextToCollect that was neither collected nor
\* examined: its range was inside a recorded one
C21_Witness ==
    /\ colPc = "returned"
    /\ Len(colResult) >= 3
    /\ \E j \in 1..Len(colLog) :
          /\ colLog[j].ev = "examined"
          /\ ~isNodeMarked(colLog[j].id, colMarked)
          /\ \E c \in 1..Len(contextToCollect(colLog[j].id, colExtra)) :
                \A k \in 1..Len(colLog) :
                    colLog[k].id # contextToCollect(colLog[j].id, colExtra)[c]

\* every node and every child of a node once, and one direct push per node
PushBound ==
    Cardinality(NodeIds) + Cardinality(UNION {Descendants(n) : n \in NodeIds})
    + Cardinality(NodeIds)

\* the events of a kind in the log, as the positions they have
LogPositions(ev) == {k \in 1..Len(colLog) : colLog[k].ev = ev}

\* C28: the work-stack loop of getDeclarationWithContext terminates on every
\* tree, cyclic reference links included: each node id is expanded at most
\* once, a node is added to the collected context at most once (the result has
\* no duplicates), and the pushes are bounded by the nodes and their children.
C28_LoopTerminatesWithoutRepeats ==
    /\ [](/\ \A j, k \in LogPositions("examined") : colLog[j].id = colLog[k].id => j = k
          /\ \A j, k \in LogPositions("collected") : colLog[j].id = colLog[k].id => j = k
          /\ \A j, k \in 1..Len(colResult) : colResult[j] = colResult[k] => j = k
          /\ colPushes <= PushBound)
    /\ <>(colPc = "returned")

\* C28 witness: a call returned after a reference link had led back to the
\* origin node from a node that was examined later
C28_Witness ==
    /\ colPc = "returned"
    /\ colExtra.to = colOrigin
    /\ colExtra.from # colOrigin
    /\ \E k \in LogPositions("examined") :
          colLog[k].id = colExtra.from /\ ~isNodeMarked(colExtra.from, colMarked)
    /\ Len(colResult) >= 2

\* C29: every node returned by getDeclarationWithContext belongs to the current
\* tree: once applyChanges() has built a new tree, no call, one served from the
\* context cache included, returns a node of an earlier tree.
C29_NoNodeOfAnEarlierTree == ctxPc = "returned" => ctxResultTree = "current"

\* the function a callee is bound to only returns an identifier or a literal
IsTrivialWrapper(decl) ==
    decl.returns \in {"Literal", "Identifier"} \/ decl.initReturns \in {"Literal", "Identifier"}

\* C22: resolveLocalCalls refuses a candidate call when one of its arguments
\* is of a bad kind (ThisExpression), when the declaration of its callee is a
\* trivial wrapper that returns an identifier or a literal, or when its range
\* lies inside a range rewritten earlier in the same pass: such a candidate is
\* never marked.
C22_RefusedCandidatesNeverMarked ==
    /\ \A c \in rlcMarks :
          /\ rlcCalls[c].argument \notin BAD_ARGUMENT_TYPES
          /\ ~IsTrivialWrapper(LocalDecls[rlcCalls[c].callee])
    /\ \A q \in 1..Len(modifiedRanges) :
          ~isNodeInRanges(modifiedRanges[q], SubSeq(modifiedRanges, 1, q - 1))

\* C23: resolveLocalCalls processes its candidates in order of callee-name
\* frequency, most frequent first, as a stable sort: a candidate whose callee
\* name occurs more often among the candidates is processed before one whose
\* callee name occurs less often, and candidates of equal frequency are
\* processed in their nodeId order.
C23_MostFrequentCalleeFirst ==
    rlcPc \in {"loop", "returned"} =>
        \A p, q \in 1..Len(rlcOrder) :
            LET fp == Frequency(rlcCalls, rlcCalls[rlcOrder[p]].callee)
                fq == Frequency(rlcCalls, rlcCalls[rlcOrder[q]].callee)
            IN p < q => (fp > fq \/ (fp = fq /\ rlcOrder[p] < rlcOrder[q]))

foldNode ==
    CHOOSE n \in {NodeAt(flat, typeMap(flat, "BinaryExpression")[1])
                  : flat \in {generateFlatAST(foldScript)}} : TRUE

\* C25: a folded binary expression of two numeric literals denotes the same number
\* as the original expression, and when that number is negative the replacement
\* is the unary minus of the numeric literal of its absolute value
C25_FoldKeepsTheNumber ==
    foldPc = "folded" =>
        \E n \in {foldNode} :
            /\ n.nodeId \in DOMAIN foldMarks
            /\ \E original \in {Eval(n.src)} :
                  /\ Eval(foldMarks[n.nodeId]) = original
                  /\ original.v.n < 0 =>
                        foldMarks[n.nodeId] =
                            UnaryExpression("-", Literal(Num(0 - original.v.n)))

\* C30: the default counter never drops below 0, each numeric use returns its
\* value and takes one off it, and every job that runs with the default starts
\* with the full default budget, whatever earlier jobs consumed
C30_JobsDoNotShareBudget ==
    /\ itrValue >= 0
    /\ \A k \in 1..Len(itrStarts) : itrStarts[k] = DefaultBudget
    /\ itrPc = "running" =>
          \A k \in 1..Len(itrReads) : itrReads[k] = itrStarts[Len(itrStarts)] - (k - 1)

\* a text that starts with a letter, '$' or '_' and holds only letters, digits,
\* '_' and '$'
IsIdentifierName(cs) ==
    /\ cs # <<>>
    /\ cs[1] \in Letters \cup {"$", "_"}
    /\ \A k \in 1..Len(cs) : cs[k] \in Letters \cup Digits \cup {"$", "_"}

\* the key of a member access, a method or a property
KeyOf(t) == t.kids[IF t.type = "MemberExpression" THEN 2 ELSE 1]

\* a computed member access, method or property whose key is a literal that
\* reads as an identifier name
IsNormalizable(t) ==
    /\ t.type \in {"MemberExpression", "MethodDefinition", "Property"}
    /\ t.computed
    /\ KeyOf(t).type = "Literal"
    /\ IsIdentifierName(ToStringChars(KeyOf(t).value))

\* the original node with computed false and an identifier for its key
IsDotForm(replacement, t) ==
    /\ replacement.type = t.type
    /\ replacement.operator = t.operator
    /\ replacement.value = t.value
    /\ replacement.name = t.name
    /\ ~replacement.computed
    /\ Len(replacement.kids) = Len(t.kids)
    /\ \A k \in 1..Len(t.kids) :
          replacement.kids[k] = IF t.kids[k] = KeyOf(t)
                                THEN Identifier(ToStringChars(KeyOf(t).value))
                                ELSE t.kids[k]

\* a run marks exactly the normalizable nodes the filter accepts, each with its
\* dot form
MarksAreTheDotForms ==
    ncPc = "commit" =>
        \E flat \in {generateFlatAST(ncScript)} :
            /\ DOMAIN ncMarks =
                   { flat[k].nodeId : k \in { j \in 1..Len(flat) :
                         IsNormalizable(flat[j].src) /\ applyFilter(ncFilter, flat[j]) } }
            /\ \A id \in DOMAIN ncMarks : IsDotForm(ncMarks[id], NodeAt(flat, id).src)

\* whether a sequence holds an element
InSeq(x, seq) == \E k \in 1..Len(seq) : seq[k] = x

RECURSIVE HasAncestorIn(_, _, _)
\* whether a node lies inside one of the nodes of a list
HasAncestorIn(flat, id, ids) ==
    LET parent == NodeAt(flat, id).parentId IN
    parent >= 0 /\ (InSeq(parent, ids) \/ HasAncestorIn(flat, parent, ids))

IdsOf(nodes) == {nodes[k] : k \in 1..Len(nodes)}

\* the place of a node in the returned string, 0 when it is not there
PlaceOf(id) ==
    IF \E k \in 1..Len(cosOutput) : cosOutput[k].nodeId = id
    THEN CHOOSE k \in 1..Len(cosOutput) : cosOutput[k].nodeId = id
    ELSE 0

\* C24: the string createOrderedSrc returns holds each distinct nodeId of its
\* list exactly once, whatever the order and multiplicity of the list; each piece
\* ends with a newline; nodes that are not IIFEs come in ascending source
\* position and the IIFEs behind them in their original relative order, or, if
\* the order is to be preserved, all pieces come in ascending source position;
\* the empty list gives the empty string
C24_OrderedSrcOfTheNodeSet ==
    cosPc = "returned" =>
        /\ Len(cosOutput) = Cardinality(IdsOf(cosNodes))
        /\ \A id \in IdsOf(cosNodes) : PlaceOf(id) > 0
        /\ \A k \in 1..Len(cosOutput) :
              /\ cosOutput[k].end = "\n"
              /\ cosOutput[k].src = NodeAt(CosAst, NodeAt(CosAst, cosOutput[k].nodeId).parentId).src
        /\ \A p, q \in 1..Len(cosOutput) :
              LET a == NodeAt(CosAst, cosOutput[p].nodeId)
                  b == NodeAt(CosAst, cosOutput[q].nodeId)
              IN p < q =>
                    IF cosPreserve \/ IsIIFE(a) = IsIIFE(b)
                    THEN a.nodeId < b.nodeId
                    ELSE IsIIFE(b)
        /\ cosNodes = <<>> => cosOutput = <<>>

\* the list of TP-3 with a node twice: both IIFEs and a call between them, out of
\* order, printed with the IIFEs at the end
C24_Witness ==
    /\ cosPc = "returned"
    /\ ~cosPreserve
    /\ Len(cosNodes) > Cardinality(IdsOf(cosNodes))
    /\ \E k \in 1..(Len(cosNodes) - 1) : cosNodes[k] > cosNodes[k + 1]
    /\ \E p \in 1..(Len(cosOutput) - 1) :
          cosOutput[p].nodeId > cosOutput[p + 1].nodeId


=============================================================================
